---- MODULE Spec2Model ----
(***************************************************************************)
(* A model of the AI Builder generation pipeline (src/orchestrator.py),    *)
(* its agents (src/agents/*.py) and the refinement protocol.               *)
(*                                                                         *)
(* Python str values are modelled as sequences of one-character strings,   *)
(* so that split, strip, lower, "in" and count are computed as the code    *)
(* computes them.  None is the model value None.                            *)
(***************************************************************************)
EXTENDS Integers, Sequences, FiniteSets, TLC

None == "None"

\* ------------------------------------------------------------------------
\* Python str primitives used by the agents
\* ------------------------------------------------------------------------

UpperAlphabet ==
  <<"A","B","C","D","E","F","G","H","I","J","K","L","M",
    "N","O","P","Q","R","S","T","U","V","W","X","Y","Z">>

LowerAlphabet ==
  <<"a","b","c","d","e","f","g","h","i","j","k","l","m",
    "n","o","p","q","r","s","t","u","v","w","x","y","z">>

\* str.lower() on one character
LowerChar(c) ==
  IF \E i \in 1..Len(UpperAlphabet) : UpperAlphabet[i] = c
    THEN LowerAlphabet[CHOOSE i \in 1..Len(UpperAlphabet) : UpperAlphabet[i] = c]
    ELSE c

\* a sequence given by a rule, as the tuple of its elements
AsTuple(f) == f \o <<>>

\* str.lower()
Lower(s) == AsTuple([i \in 1..Len(s) |-> LowerChar(s[i])])

\* k in s  (substring test)
Contains(s, k) ==
  \E i \in 0..(Len(s) - Len(k)) : SubSeq(s, i + 1, i + Len(k)) = k

\* s.startswith(p)
StartsWith(s, p) == Len(p) <= Len(s) /\ SubSeq(s, 1, Len(p)) = p

\* the characters str.strip() removes
Whitespace == {" ", "\t", "\n", "\r", "\f"}

RECURSIVE LStrip(_)
LStrip(s) ==
  IF s /= <<>> /\ Head(s) \in Whitespace THEN LStrip(Tail(s)) ELSE s

RECURSIVE RStrip(_)
RStrip(s) ==
  IF s /= <<>> /\ s[Len(s)] \in Whitespace
    THEN RStrip(SubSeq(s, 1, Len(s) - 1)) ELSE s

\* str.strip()
Strip(s) == RStrip(LStrip(s))

\* s.lstrip(chars)
RECURSIVE LStripChars(_, _)
LStripChars(s, chars) ==
  IF s /= <<>> /\ Head(s) \in chars THEN LStripChars(Tail(s), chars) ELSE s

\* s.split('\n'): always at least one piece
RECURSIVE SplitLines(_)
SplitLines(s) ==
  IF \E i \in 1..Len(s) : s[i] = "\n"
    THEN LET i == CHOOSE j \in 1..Len(s) :
                    s[j] = "\n" /\ \A k \in 1..(j - 1) : s[k] /= "\n"
         IN  <<SubSeq(s, 1, i - 1)>> \o SplitLines(SubSeq(s, i + 1, Len(s)))
    ELSE <<s>>

\* '\n'.join(lines)
RECURSIVE JoinLines(_)
JoinLines(lines) ==
  IF lines = <<>> THEN <<>>
  ELSE IF Len(lines) = 1 THEN lines[1]
  ELSE lines[1] \o <<"\n">> \o JoinLines(Tail(lines))

\* s.count(k): non-overlapping occurrences, scanning left to right
RECURSIVE Count(_, _)
Count(s, k) ==
  IF Len(s) < Len(k) THEN 0
  ELSE IF SubSeq(s, 1, Len(k)) = k
    THEN 1 + Count(SubSeq(s, Len(k) + 1, Len(s)), k)
    ELSE Count(Tail(s), k)

\* ------------------------------------------------------------------------
\* RefinerAgent._analyze_feedback (src/agents/refiner.py)
\* ------------------------------------------------------------------------

kw_structure  == <<"s","t","r","u","c","t","u","r","e">>
kw_organize   == <<"o","r","g","a","n","i","z","e">>
kw_format     == <<"f","o","r","m","a","t">>
kw_section    == <<"s","e","c","t","i","o","n">>
kw_unclear    == <<"u","n","c","l","e","a","r">>
kw_confusing  == <<"c","o","n","f","u","s","i","n","g">>
kw_explain    == <<"e","x","p","l","a","i","n">>
kw_clarify    == <<"c","l","a","r","i","f","y">>
kw_missing    == <<"m","i","s","s","i","n","g">>
kw_incomplete == <<"i","n","c","o","m","p","l","e","t","e">>
kw_add        == <<"a","d","d">>
kw_include    == <<"i","n","c","l","u","d","e">>

StructuralKeywords   == {kw_structure, kw_organize, kw_format, kw_section}
ClarityKeywords      == {kw_unclear, kw_confusing, kw_explain, kw_clarify}
CompletenessKeywords == {kw_missing, kw_incomplete, kw_add, kw_include}

\* any(keyword in text for keyword in keywords)
AnyKeywordIn(keywords, text) == \E k \in keywords : Contains(text, k)

\* the clarity and completeness tests in the wrong order
_analyze_feedback_completeness_first(fb) ==
  LET feedback_lower == Lower(fb) IN
  IF AnyKeywordIn(StructuralKeywords, feedback_lower) THEN "structure_improvement"
  ELSE IF AnyKeywordIn(CompletenessKeywords, feedback_lower) THEN "completeness_check"
  ELSE IF AnyKeywordIn(ClarityKeywords, feedback_lower) THEN "clarity_optimization"
  ELSE "content_enhancement"

\* the keyword tests on the text as given, not lower-cased
_analyze_feedback_case_sensitive(fb) ==
  IF AnyKeywordIn(StructuralKeywords, fb) THEN "structure_improvement"
  ELSE IF AnyKeywordIn(ClarityKeywords, fb) THEN "clarity_optimization"
  ELSE IF AnyKeywordIn(CompletenessKeywords, fb) THEN "completeness_check"
  ELSE "content_enhancement"

_analyze_feedback(fb) ==
  LET feedback_lower == Lower(fb) IN
  IF AnyKeywordIn(StructuralKeywords, feedback_lower) THEN "structure_improvement"
  ELSE IF AnyKeywordIn(ClarityKeywords, feedback_lower) THEN "clarity_optimization"
  ELSE IF AnyKeywordIn(CompletenessKeywords, feedback_lower) THEN "completeness_check"
  ELSE "content_enhancement"

\* ------------------------------------------------------------------------
\* Keyword tables of the extractors
\* ------------------------------------------------------------------------

kw_component == <<"c","o","m","p","o","n","e","n","t">>
kw_service == <<"s","e","r","v","i","c","e">>
kw_module == <<"m","o","d","u","l","e">>
kw_layer == <<"l","a","y","e","r">>
ComponentKeywords == {kw_component, kw_service, kw_module, kw_layer}

kw_core == <<"c","o","r","e">>
kw_must_have == <<"m","u","s","t","-","h","a","v","e">>
kw_essential == <<"e","s","s","e","n","t","i","a","l">>
CoreKeywords == {kw_core, kw_must_have, kw_essential}

kw_enhanced == <<"e","n","h","a","n","c","e","d">>
kw_should_have == <<"s","h","o","u","l","d","-","h","a","v","e">>
kw_important == <<"i","m","p","o","r","t","a","n","t">>
EnhancedKeywords == {kw_enhanced, kw_should_have, kw_important}

kw_optional == <<"o","p","t","i","o","n","a","l">>
kw_nice_to_have == <<"n","i","c","e","-","t","o","-","h","a","v","e">>
kw_future == <<"f","u","t","u","r","e">>
OptionalKeywords == {kw_optional, kw_nice_to_have, kw_future}

kw_phase == <<"p","h","a","s","e">>
kw_sprint == <<"s","p","r","i","n","t">>
kw_week == <<"w","e","e","k">>
kw_month == <<"m","o","n","t","h">>
kw_quarter == <<"q","u","a","r","t","e","r">>
TimelineKeywords == {kw_phase, kw_sprint, kw_week, kw_month, kw_quarter}

kw_requirement == <<"r","e","q","u","i","r","e","m","e","n","t">>
kw_functional == <<"f","u","n","c","t","i","o","n","a","l">>
kw_business_rule == <<"b","u","s","i","n","e","s","s"," ","r","u","l","e">>
RequirementKeywords == {kw_requirement, kw_functional, kw_business_rule}

kw_technical == <<"t","e","c","h","n","i","c","a","l">>
kw_system == <<"s","y","s","t","e","m">>
kw_performance == <<"p","e","r","f","o","r","m","a","n","c","e">>
kw_security == <<"s","e","c","u","r","i","t","y">>
TechnicalKeywords == {kw_technical, kw_system, kw_performance, kw_security}

tech_python == <<"p","y","t","h","o","n">>
tech_java == <<"j","a","v","a">>
tech_node_dot_js == <<"n","o","d","e",".","j","s">>
tech_go == <<"g","o">>
tech_rust == <<"r","u","s","t">>
tech_c_sharp == <<"c","#">>
tech_dot_net == <<".","n","e","t">>
backend_techs == <<tech_python, tech_java, tech_node_dot_js, tech_go, tech_rust, tech_c_sharp, tech_dot_net>>

tech_react == <<"r","e","a","c","t">>
tech_vue == <<"v","u","e">>
tech_angular == <<"a","n","g","u","l","a","r">>
tech_svelte == <<"s","v","e","l","t","e">>
tech_html == <<"h","t","m","l">>
tech_css == <<"c","s","s">>
tech_javascript == <<"j","a","v","a","s","c","r","i","p","t">>
frontend_techs == <<tech_react, tech_vue, tech_angular, tech_svelte, tech_html, tech_css, tech_javascript>>

tech_flutter == <<"f","l","u","t","t","e","r">>
tech_react_native == <<"r","e","a","c","t"," ","n","a","t","i","v","e">>
tech_swift == <<"s","w","i","f","t">>
tech_kotlin == <<"k","o","t","l","i","n">>
tech_java_android == <<"j","a","v","a"," ","(","a","n","d","r","o","i","d",")">>
tech_objective_c == <<"o","b","j","e","c","t","i","v","e","-","c">>
mobile_techs == <<tech_flutter, tech_react_native, tech_swift, tech_kotlin, tech_java_android, tech_objective_c>>

tech_postgresql == <<"p","o","s","t","g","r","e","s","q","l">>
tech_mysql == <<"m","y","s","q","l">>
tech_mongodb == <<"m","o","n","g","o","d","b">>
tech_redis == <<"r","e","d","i","s">>
tech_sqlite == <<"s","q","l","i","t","e">>
tech_elasticsearch == <<"e","l","a","s","t","i","c","s","e","a","r","c","h">>
db_techs == <<tech_postgresql, tech_mysql, tech_mongodb, tech_redis, tech_sqlite, tech_elasticsearch>>

tech_docker == <<"d","o","c","k","e","r">>
tech_kubernetes == <<"k","u","b","e","r","n","e","t","e","s">>
tech_aws == <<"a","w","s">>
tech_azure == <<"a","z","u","r","e">>
tech_gcp == <<"g","c","p">>
tech_nginx == <<"n","g","i","n","x">>
tech_apache == <<"a","p","a","c","h","e">>
infra_techs == <<tech_docker, tech_kubernetes, tech_aws, tech_azure, tech_gcp, tech_nginx, tech_apache>>

\* ------------------------------------------------------------------------
\* Python dict as an ordered mapping: a sequence of <<key, value>> pairs
\* ------------------------------------------------------------------------

HasKey(pairs, k) == \E i \in 1..Len(pairs) : pairs[i][1] = k

\* d[k] = v: an existing key keeps its position, a new key goes last
DictPut(pairs, k, v) ==
  IF HasKey(pairs, k)
    THEN AsTuple([i \in 1..Len(pairs) |->
                    IF pairs[i][1] = k THEN <<k, v>> ELSE pairs[i]])
    ELSE Append(pairs, <<k, v>>)

\* ------------------------------------------------------------------------
\* AnalyzerAgent._extract_sections (src/agents/analyzer.py) and
\* DocumentWriterAgent._extract_document_sections
\* ------------------------------------------------------------------------

\* '#' in line
IsHeadingLine_anywhere(line) == Contains(line, <<"#">>)

\* line.strip().startswith('#')
IsHeadingLine(line) == StartsWith(Strip(line), <<"#">>)

\* line.strip().lstrip('#')
HeadingTitle_untrimmed(line) == LStripChars(Strip(line), {"#"})

\* line.strip().lstrip('#').strip()
HeadingTitle(line) == Strip(LStripChars(Strip(line), {"#"}))

\* The loop over content.split('\n').  current_section is None or a title;
\* None and the empty title are both falsy in "if current_section:", and are
\* both written <<>> here.
RECURSIVE ExtractSectionsLoop(_, _, _, _)
ExtractSectionsLoop(lines, sections, current_section, section_content) ==
  IF lines = <<>>
    THEN IF current_section /= <<>>
           THEN DictPut(sections, current_section, Strip(JoinLines(section_content)))
           ELSE sections
    ELSE LET line == Head(lines) IN
         IF IsHeadingLine(line)
           THEN ExtractSectionsLoop(
                  Tail(lines),
                  IF current_section /= <<>>
                    THEN DictPut(sections, current_section,
                                 Strip(JoinLines(section_content)))
                    ELSE sections,
                  HeadingTitle(line),
                  <<>>)
           ELSE ExtractSectionsLoop(
                  Tail(lines),
                  sections,
                  current_section,
                  IF current_section /= <<>>
                    THEN Append(section_content, line) ELSE section_content)

_extract_sections(content) ==
  ExtractSectionsLoop(SplitLines(content), <<>>, <<>>, <<>>)

\* _extract_document_sections over the lower-cased text
_extract_document_sections_lowercase(content) ==
  ExtractSectionsLoop(SplitLines(Lower(content)), <<>>, <<>>, <<>>)

_extract_document_sections(content) ==
  ExtractSectionsLoop(SplitLines(content), <<>>, <<>>, <<>>)

\* ------------------------------------------------------------------------
\* ArchitectAgent extractors (src/agents/architect.py)
\* ------------------------------------------------------------------------

\* s.split(':')[0]
BeforeColon(s) ==
  IF \E i \in 1..Len(s) : s[i] = ":"
    THEN SubSeq(s, 1, (CHOOSE j \in 1..Len(s) :
                         s[j] = ":" /\ \A k \in 1..(j - 1) : s[k] /= ":") - 1)
    ELSE s

\* s.split(':', 1)[1], for s containing a colon
AfterColon(s) ==
  SubSeq(s, (CHOOSE j \in 1..Len(s) :
               s[j] = ":" /\ \A k \in 1..(j - 1) : s[k] /= ":") + 1, Len(s))

ComponentMaxLen == 50

\* the component a line contributes, as a set of zero or one names
ComponentOfLine(raw) ==
  LET line == Strip(raw)
      component == Strip(BeforeColon(line))
  IN  IF /\ AnyKeywordIn(ComponentKeywords, Lower(line))
         /\ line /= <<>>
         /\ ~StartsWith(line, <<"#">>)
         /\ component /= <<>>
         /\ Len(component) < ComponentMaxLen
        THEN {component} ELSE {}

\* list(set(components)): the order of the list is the set's iteration order,
\* which Python does not fix; the value is modelled as the set
_extract_components(content) ==
  LET lines == SplitLines(content) IN
  UNION {ComponentOfLine(lines[i]) : i \in 1..Len(lines)}

\* [tech for tech in techs if tech in content_lower]
TechsFound(techs, content_lower) ==
  LET Found(tech) == Contains(content_lower, tech) IN SelectSeq(techs, Found)

_extract_technology_stack(content) ==
  LET content_lower == Lower(content) IN
  [backend        |-> TechsFound(backend_techs, content_lower),
   frontend       |-> TechsFound(frontend_techs, content_lower),
   mobile         |-> TechsFound(mobile_techs, content_lower),
   database       |-> TechsFound(db_techs, content_lower),
   infrastructure |-> TechsFound(infra_techs, content_lower)]

\* ------------------------------------------------------------------------
\* FeaturePlannerAgent extractors (src/agents/feature_planner.py)
\* ------------------------------------------------------------------------

DigitChars == {"0","1","2","3","4","5","6","7","8","9"}

\* line.startswith('-') or line.startswith(tuple('123456789'))
IsListLine(line) ==
  line /= <<>> /\ (Head(line) = "-" \/ Head(line) \in (DigitChars \ {"0"}))

\* line.lstrip('-').lstrip('0123456789').lstrip('.').strip()
ListItemText(line) ==
  Strip(LStripChars(LStripChars(LStripChars(line, {"-"}), DigitChars), {"."}))

FeatureMaxLen == 100

\* the category tests in the reverse order
CategoryAfter_optional_first(line_lower, current_category) ==
  IF AnyKeywordIn(OptionalKeywords, line_lower) THEN "optional"
  ELSE IF AnyKeywordIn(EnhancedKeywords, line_lower) THEN "enhanced"
  ELSE IF AnyKeywordIn(CoreKeywords, line_lower) THEN "core"
  ELSE current_category

\* the category a line switches to, or the current one
CategoryAfter(line_lower, current_category) ==
  IF AnyKeywordIn(CoreKeywords, line_lower) THEN "core"
  ELSE IF AnyKeywordIn(EnhancedKeywords, line_lower) THEN "enhanced"
  ELSE IF AnyKeywordIn(OptionalKeywords, line_lower) THEN "optional"
  ELSE current_category

RECURSIVE FeatureCategoriesLoop(_, _, _)
FeatureCategoriesLoop(lines, categories, current_category) ==
  IF lines = <<>> THEN categories
  ELSE LET line == Strip(Head(lines))
           category == CategoryAfter(Lower(line), current_category)
           feature == ListItemText(line)
       IN  FeatureCategoriesLoop(
             Tail(lines),
             IF /\ category /= None
                /\ IsListLine(line)
                /\ feature /= <<>>
                /\ Len(feature) < FeatureMaxLen
               THEN [categories EXCEPT ![category] = Append(@, feature)]
               ELSE categories,
             category)

_extract_feature_categories(content) ==
  FeatureCategoriesLoop(SplitLines(content),
                        [core |-> <<>>, enhanced |-> <<>>, optional |-> <<>>],
                        None)

RECURSIVE TimelineLoop(_, _)
TimelineLoop(lines, timeline) ==
  IF lines = <<>> THEN timeline
  ELSE LET line == Head(lines) IN
       TimelineLoop(
         Tail(lines),
         IF AnyKeywordIn(TimelineKeywords, Lower(line)) /\ Contains(line, <<":">>)
           THEN DictPut(timeline, Strip(BeforeColon(line)), Strip(AfterColon(line)))
           ELSE timeline)

_extract_timeline(content) == TimelineLoop(SplitLines(content), <<>>)

\* ------------------------------------------------------------------------
\* DocumentWriterAgent requirement extractors (src/agents/document_writer.py)
\* ------------------------------------------------------------------------

RequirementMinLen == 10

\* The loop shared by _extract_requirements and _extract_technical_requirements:
\* a keyword line opens the section and is skipped ("continue"); a list line
\* inside the section is captured if its text is longer than 10 characters;
\* a line starting with '#' closes the section.
RECURSIVE RequirementsLoop(_, _, _, _)
RequirementsLoop(lines, keywords, requirements, in_section) ==
  IF lines = <<>> THEN requirements
  ELSE LET line == Strip(Head(lines))
           req  == ListItemText(line)
       IN  IF AnyKeywordIn(keywords, Lower(line))
             THEN RequirementsLoop(Tail(lines), keywords, requirements, TRUE)
             ELSE RequirementsLoop(
                    Tail(lines),
                    keywords,
                    IF /\ in_section
                       /\ IsListLine(line)
                       /\ req /= <<>>
                       /\ Len(req) > RequirementMinLen
                      THEN Append(requirements, req) ELSE requirements,
                    IF StartsWith(line, <<"#">>) /\ in_section
                      THEN FALSE ELSE in_section)

_extract_requirements(content) ==
  RequirementsLoop(SplitLines(content), RequirementKeywords, <<>>, FALSE)

_extract_technical_requirements(content) ==
  RequirementsLoop(SplitLines(content), TechnicalKeywords, <<>>, FALSE)

\* ------------------------------------------------------------------------
\* State
\* ------------------------------------------------------------------------

VARIABLES
  config_version,      \* config.output.current_version
  feedback,            \* argument of _analyze_feedback
  strategy,            \* its return value, None before the call
  it_content,          \* iterative_refinement: argument content
  feedback_list,       \* iterative_refinement: argument feedback_list
  it_pc,               \* iterative_refinement: "idle", "loop" or "returned"
  current_content,     \* iterative_refinement: local current_content
  refinement_history,  \* iterative_refinement: local refinement_history
  final_result,        \* iterative_refinement: return value, None before return
  round_inputs,        \* content handed to refine_content, per round
  round_results,       \* what refine_content returned, per round
  config_base_path,    \* config.output.base_path
  version,             \* orchestrator.version
  output_base,         \* orchestrator.output_base
  build_state,         \* orchestrator.build_state
  history_file,        \* logger.history_file, None until the first log_history
  disk,                \* the files written, by path
  index,               \* the vector store collection, by document id
  llm_calls,           \* the calls of llm_manager.complete, in order
  faults,              \* the operations of the environment that failed, in order
  pc,                  \* build_project: the statement it stands before
  build_requirements,  \* build_project: argument requirements
  build_context,       \* build_project: argument context
  detailed_flag,       \* build_project: argument generate_detailed_features
  build_result,        \* build_project: local build_result
  stage_runs,          \* how often each _run_* function was entered
  refinement,          \* refine_with_feedback: its arguments and return value
  refiner_calls,       \* the calls of refiner.refine_content by refine_with_feedback
  detail_pc,           \* generate_detailed_features: "idle", "called", "returned"
  detail_features,     \* generate_detailed_features: argument features
  detail_outcomes,     \* how its completion calls and file writes will end
  detail_returned,     \* generate_detailed_features: return value
  heap,                \* the dict objects of a refine_* call, by reference
  artifact_pc,         \* refine_*: "idle", "called" or "returned"
  artifact_arg,        \* refine_*: reference of the argument artifact
  artifact_feedback,   \* refine_*: argument feedback
  artifact_before,     \* the argument artifact's value when refine_* was called
  artifact_returned,   \* refine_*: reference of the returned artifact
  callee,              \* the function applied on its own, None before the call
  call_args,           \* its arguments
  call_returned,       \* its return value, None before the call
  call_earlier         \* the arguments and return value of the call before it

feedback_vars == <<feedback, strategy>>

refine_vars ==
  <<it_content, feedback_list, it_pc, current_content, refinement_history,
    final_result, round_inputs, round_results>>

world_vars == <<history_file, disk, index, llm_calls, faults>>

orchestrator_vars == <<config_base_path, version, output_base, build_state>>

build_vars ==
  <<pc, build_requirements, build_context, detailed_flag, build_result, stage_runs,
    refinement, refiner_calls>>

detail_vars == <<detail_pc, detail_features, detail_outcomes, detail_returned>>

artifact_vars ==
  <<heap, artifact_pc, artifact_arg, artifact_feedback, artifact_before,
    artifact_returned>>

call_vars == <<callee, call_args, call_returned, call_earlier>>

vars ==
  <<config_version, feedback_vars, refine_vars, orchestrator_vars, world_vars,
    build_vars, detail_vars, artifact_vars, call_vars>>

\* dict.get(key, default)
Get(d, key, default) == IF key \in DOMAIN d THEN d[key] ELSE default

\* ------------------------------------------------------------------------
\* The completion provider: llm_manager.complete returns text or raises
\* ------------------------------------------------------------------------

Returned(text) == [ok |-> TRUE, text |-> text]

Raised == [ok |-> FALSE, error |-> "ProviderError"]

\* ------------------------------------------------------------------------
\* Python values
\* ------------------------------------------------------------------------

\* None where a dict may stand; a dict is a function on its keys, {} is <<>>
PyNone == [py_none |-> TRUE]

IsNone(x) == "py_none" \in DOMAIN x

EmptyDict == <<>>

\* "x or {}"
OrEmptyDict(x) == IF IsNone(x) \/ DOMAIN x = {} THEN EmptyDict ELSE x

\* d[k] = v on a dict held as a function
DictSet(d, k, v) == [x \in DOMAIN d \cup {k} |-> IF x = k THEN v ELSE d[x]]

\* one statement after another: value is computed once and handed to the
\* statements that follow it
Then(value, rest(_)) == CHOOSE outcome \in {rest(v) : v \in {value}} : TRUE

\* an exception leaving a function, as the value the caller sees
Exception(msg) == [raised |-> TRUE, error |-> msg]

IsException(x) == "raised" \in DOMAIN x

\* ------------------------------------------------------------------------
\* Generation operations of the agents.  llm is the outcome of the
\* operation's completion call; the prompt is resolved before the call and
\* prompt_manager.get_prompt does not raise (src/core/prompt_manager.py:46-48).
\* ------------------------------------------------------------------------

\* the keyword arguments handed to prompt_manager.get_prompt
analysis_prompt(requirements, context) ==
  [name |-> "analysis", requirements |-> requirements,
   context |-> OrEmptyDict(context)]

architecture_prompt(analysis) ==
  [name |-> "architecture",
   analysis |-> Get(analysis, "analysis_content", <<>>),
   requirements |-> <<>>]

features_prompt(analysis, architecture) ==
  [name |-> "features",
   analysis |-> Get(analysis, "analysis_content", <<>>),
   architecture |-> Get(architecture, "architecture_content", <<>>)]

brd_prompt(analysis, features) ==
  [name |-> "brd",
   analysis |-> Get(analysis, "analysis_content", <<>>),
   features |-> Get(features, "features_content", <<>>)]

srs_prompt(analysis, architecture, features) ==
  [name |-> "srs",
   analysis |-> Get(analysis, "analysis_content", <<>>),
   architecture |-> Get(architecture, "architecture_content", <<>>),
   features |-> Get(features, "features_content", <<>>)]

\* AnalyzerAgent.analyze_requirements
analyze_requirements(requirements, context, llm) ==
  IF llm.ok
    THEN [raw_requirements |-> requirements,
          analysis_content |-> llm.text,
          metadata         |-> [agent |-> "Analyzer",
                                version |-> config_version,
                                context |-> context],
          sections         |-> _extract_sections(llm.text)]
    ELSE [error            |-> llm.error,
          raw_requirements |-> requirements,
          analysis_content |-> <<>>,
          metadata         |-> [agent |-> "Analyzer", error |-> TRUE]]

\* AnalyzerAgent.analyze_bnmp
analyze_bnmp(bnm, context, llm) ==
  IF llm.ok
    THEN [business_needs   |-> bnm,
          analysis_content |-> llm.text,
          metadata         |-> [agent |-> "Analyzer",
                                version |-> config_version,
                                context |-> context],
          sections         |-> _extract_sections(llm.text)]
    ELSE [error            |-> llm.error,
          business_needs   |-> bnm,
          analysis_content |-> <<>>,
          metadata         |-> [agent |-> "Analyzer", error |-> TRUE]]

\* ArchitectAgent.design_architecture
design_architecture(analysis, llm) ==
  IF llm.ok
    THEN [base_analysis        |-> analysis,
          architecture_content |-> llm.text,
          metadata             |-> [agent |-> "Architect",
                                    version |-> config_version,
                                    based_on |-> Get(Get(analysis, "metadata", EmptyDict),
                                                     "agent", "Unknown")],
          components           |-> _extract_components(llm.text),
          technology_stack     |-> _extract_technology_stack(llm.text)]
    ELSE [error                |-> llm.error,
          base_analysis        |-> analysis,
          architecture_content |-> <<>>,
          metadata             |-> [agent |-> "Architect", error |-> TRUE]]

\* generate_brd without its try/except: the provider's exception leaves it
generate_brd_raises(analysis, features, llm) ==
  IF llm.ok
    THEN [document_type |-> "brd",
          content       |-> llm.text,
          metadata      |-> [agent |-> "DocumentWriter",
                             version |-> config_version,
                             inputs |-> <<"analysis", "features">>,
                             document_version |-> "1.0"],
          sections      |-> _extract_document_sections(llm.text),
          requirements  |-> _extract_requirements(llm.text)]
    ELSE [raised |-> TRUE, error |-> llm.error]

\* DocumentWriterAgent.generate_brd
generate_brd(analysis, features, llm) ==
  IF llm.ok
    THEN [document_type |-> "brd",
          content       |-> llm.text,
          metadata      |-> [agent |-> "DocumentWriter",
                             version |-> config_version,
                             inputs |-> <<"analysis", "features">>,
                             document_version |-> "1.0"],
          sections      |-> _extract_document_sections(llm.text),
          requirements  |-> _extract_requirements(llm.text)]
    ELSE [error         |-> llm.error,
          document_type |-> "brd",
          content       |-> <<>>,
          metadata      |-> [agent |-> "DocumentWriter", error |-> TRUE]]

\* DocumentWriterAgent.generate_srs
generate_srs(analysis, architecture, features, llm) ==
  IF llm.ok
    THEN [document_type          |-> "srs",
          content                |-> llm.text,
          metadata               |-> [agent |-> "DocumentWriter",
                                      version |-> config_version,
                                      inputs |-> <<"analysis", "architecture", "features">>,
                                      document_version |-> "1.0"],
          sections               |-> _extract_document_sections(llm.text),
          technical_requirements |-> _extract_technical_requirements(llm.text)]
    ELSE [error         |-> llm.error,
          document_type |-> "srs",
          content       |-> <<>>,
          metadata      |-> [agent |-> "DocumentWriter", error |-> TRUE]]

\* ------------------------------------------------------------------------
\* File paths and the files written
\* ------------------------------------------------------------------------

name_analysis_overview == <<"a","n","a","l","y","s","i","s","_","o","v","e","r","v","i","e","w",".","m","d">>
name_system_architecture == <<"s","y","s","t","e","m","_","a","r","c","h","i","t","e","c","t","u","r","e",".","m","d">>
name_feature_list == <<"f","e","a","t","u","r","e","_","l","i","s","t",".","m","d">>
name_validation_report == <<"v","a","l","i","d","a","t","i","o","n","_","r","e","p","o","r","t",".","j","s","o","n">>
name_final_report == <<"f","i","n","a","l","_","r","e","p","o","r","t",".","m","d">>
ext_md == <<".","m","d">>
chars_brd == <<"b","r","d">>
chars_srs == <<"s","r","s">>
chars_refined_ == <<"r","e","f","i","n","e","d","_">>
key_error == <<"e","r","r","o","r">>
name_history == <<"h","i","s","t","o","r","y",".","j","s","o","n","l">>

\* self.state_dirs
state_dirs ==
  <<"state_1_analysis", "state_2_architecture", "state_3_features",
    "state_4_documents", "state_5_validation", "state_6_final">>

\* os.path.join(self.output_base, self.state_dirs[n])
OutputDir(base, n) == [base |-> base, dir |-> <<state_dirs[n]>>]

\* os.path.join(output_dir, sub)
SubDir(output_dir, sub) == [output_dir EXCEPT !.dir = Append(@, sub)]

\* os.path.join(output_dir, name)
FilePath(output_dir, name) ==
  [base |-> output_dir.base, dir |-> output_dir.dir, name |-> name]

\* f"{doc_type}.md"
DocTypeChars(doc_type) == IF doc_type = "brd" THEN chars_brd ELSE chars_srs

\* what a save operation leaves in its file: the writer and the value it formats
FileOf(writer, document) == [writer |-> writer, document |-> document]

\* ------------------------------------------------------------------------
\* The world the program acts on (files, vector store, history log,
\* completion provider) and how an operation on it ends
\* ------------------------------------------------------------------------

\* stage names the statement of build_project that is running (pc)
World ==
  [history_file |-> history_file, disk |-> disk, index |-> index,
   llm_calls |-> llm_calls, faults |-> faults, stage |-> pc]

\* the operation returned value
Normal(world, value) == [raised |-> FALSE, world |-> world, value |-> value]

\* the operation raised an exception whose str() is error
Thrown(world, error) == [raised |-> TRUE, world |-> world, error |-> error]

\* an operation of the environment fails
Fault(world, kind) ==
  [world EXCEPT !.faults = Append(@, [stage |-> world.stage, kind |-> kind])]

\* llm_manager.complete(prompt) with a failed call issued a second time
Completed_retrying(world, prompt, llm) ==
  LET called == [world EXCEPT !.llm_calls =
                   Append(@, [prompt |-> prompt, ok |-> llm.ok])]
      again  == [called EXCEPT !.llm_calls =
                   Append(@, [prompt |-> prompt, ok |-> llm.ok])]
  IN  IF llm.ok THEN called ELSE Fault(again, "provider")

\* llm_manager.complete(prompt): the call is made; it returns text or raises
Completed(world, prompt, llm) ==
  LET called == [world EXCEPT !.llm_calls =
                   Append(@, [prompt |-> prompt, ok |-> llm.ok])]
  IN  IF llm.ok THEN called ELSE Fault(called, "provider")

\* with open(file_path, 'w') as f: f.write(...), after os.makedirs
WriteFile(world, path, entry, ok) ==
  IF ok
    THEN Normal([world EXCEPT !.disk = DictSet(@, path, entry)], path)
    ELSE Thrown(Fault(world, "persistence"), "PersistenceError")

\* hashlib.md5(content.encode()).hexdigest()
md5(content) == [md5 |-> content]

\* add_document over a collection that rejects an id it already holds
add_document_rejecting_existing(world, content, metadata, ok) ==
  IF ok /\ md5(content) \notin DOMAIN world.index
    THEN Normal([world EXCEPT !.index =
                   DictSet(@, md5(content),
                           [document |-> content,
                            metadata |-> DictSet(DictSet(metadata, "length",
                                                         Len(content)),
                                                 "type", "document")])],
                md5(content))
    ELSE Thrown(world, "IDAlreadyExistsError")

\* VectorManager.add_document with the failure logged and None returned
add_document_swallowing(world, content, metadata, ok) ==
  IF ok
    THEN Normal([world EXCEPT !.index =
                   IF md5(content) \in DOMAIN @ THEN @
                   ELSE DictSet(@, md5(content),
                                [document |-> content,
                                 metadata |-> DictSet(DictSet(metadata, "length",
                                                              Len(content)),
                                                      "type", "document")])],
                md5(content))
    ELSE Normal(Fault(world, "index"), None)

\* VectorManager.add_document
add_document(world, content, metadata, ok) ==
  LET doc_id       == md5(content)
      doc_metadata == DictSet(DictSet(metadata, "length", Len(content)),
                              "type", "document")
  IN  IF ok
        THEN Normal([world EXCEPT !.index =
                       IF doc_id \in DOMAIN @ THEN @
                       ELSE DictSet(@, doc_id, [document |-> content,
                                                metadata |-> doc_metadata])],
                    doc_id)
        ELSE Thrown(Fault(world, "index"), "IndexError")

\* os.path.join(config.get_output_path(), "logs", "history.jsonl")
HistoryPath ==
  [base |-> [base_path |-> config_base_path, version |-> config_version],
   dir |-> <<"logs">>, name |-> name_history]

HistoryLines(a_disk, path) ==
  IF path \in DOMAIN a_disk THEN a_disk[path].document ELSE <<>>

\* HistoryLogger.log_history.  how is "ok", "mkdir_raises" (os.makedirs of
\* the log directory raises, which only the first call can meet) or
\* "write_fails" (the append raises and is swallowed with a warning).
log_history(world, state, files, a_version, metadata, how) ==
  LET first  == IsNone(world.history_file)
      opened == IF first THEN [world EXCEPT !.history_file = HistoryPath]
                ELSE world
      entry  == [state |-> state, files |-> files, version |-> a_version,
                 metadata |-> metadata]
  IN  IF first /\ how = "mkdir_raises"
        THEN Thrown(Fault(opened, "history_dir"), "OSError")
      ELSE IF how = "write_fails"
        THEN Normal(Fault(opened, "history_write"), None)
      ELSE Normal([opened EXCEPT !.disk =
                     DictSet(@, opened.history_file,
                             FileOf("log_history",
                                    Append(HistoryLines(@, opened.history_file),
                                           entry)))],
                  None)


\* ------------------------------------------------------------------------
\* FeaturePlannerAgent (src/agents/feature_planner.py)
\* ------------------------------------------------------------------------

AlnumChars ==
  {LowerAlphabet[i] : i \in 1..Len(LowerAlphabet)} \cup
  {UpperAlphabet[i] : i \in 1..Len(UpperAlphabet)} \cup DigitChars

\* s.strip('_')
RECURSIVE RStripChars(_, _)
RStripChars(s, chars) ==
  IF s /= <<>> /\ s[Len(s)] \in chars
    THEN RStripChars(SubSeq(s, 1, Len(s) - 1), chars) ELSE s

SafeNameMaxLen == 50

\* ''.join(c if c.isalnum() or c == '_' else '_' for c in feature.lower())
\*   .strip('_')[:50]
safe_name(feature) ==
  LET lowered  == Lower(feature)
      replaced == AsTuple([i \in 1..Len(lowered) |->
                             IF lowered[i] \in AlnumChars \/ lowered[i] = "_"
                               THEN lowered[i] ELSE "_"])
      stripped == RStripChars(LStripChars(replaced, {"_"}), {"_"})
  IN  SubSeq(stripped, 1, IF Len(stripped) < SafeNameMaxLen
                            THEN Len(stripped) ELSE SafeNameMaxLen)

\* categories.get(cat, []) for cat in ['core', 'enhanced', 'optional']
AllFeatures(features) ==
  LET categories == Get(features, "feature_categories", EmptyDict) IN
  Get(categories, "core", <<>>) \o Get(categories, "enhanced", <<>>)
    \o Get(categories, "optional", <<>>)

detail_prompt(feature) == [name |-> "feature_detail", feature |-> feature]

\* The loop of generate_detailed_features from feature number i on.
\* detail_envs[i] tells how the completion call and the file write for
\* feature i end.  One try/except encloses the whole loop: the first
\* operation that raises ends it with {"error": str(e)}; the files written
\* before it stay on disk.
RECURSIVE DetailLoop(_, _, _, _, _, _)
DetailLoop(world, all_features, i, detail_envs, output_dir, detailed_features) ==
  IF i > Len(all_features)
    THEN Normal(world, detailed_features)
    ELSE
      Then(all_features[i], LAMBDA feature :
      Then(detail_envs[i].llm, LAMBDA llm :
      Then(Completed(world, detail_prompt(feature), llm), LAMBDA called :
        IF ~llm.ok
          THEN Normal(called, << <<key_error, [error_text |-> llm.error]>> >>)
        ELSE
      Then(FilePath(SubDir(output_dir, "features"),
                    safe_name(feature) \o ext_md),
           LAMBDA file_path :
      Then(WriteFile(called, file_path,
                     FileOf("generate_detailed_features", llm.text),
                     detail_envs[i].write_ok),
           LAMBDA written :
        IF written.raised
          THEN Normal(written.world,
                      << <<key_error, [error_text |-> written.error]>> >>)
          ELSE DetailLoop(written.world, all_features, i + 1, detail_envs,
                          output_dir,
                          DictPut(detailed_features, feature,
                                  [content |-> llm.text,
                                   file_path |-> file_path])))))))

\* FeaturePlannerAgent.generate_detailed_features
generate_detailed_features(world, features, output_dir, detail_envs) ==
  DetailLoop(world, AllFeatures(features), 1, detail_envs, output_dir, <<>>)

\* FeaturePlannerAgent.plan_features
plan_features(world, analysis, architecture, detailed_features, output_dir, llm, detail_envs) ==
  Then(Completed(world, features_prompt(analysis, architecture), llm),
       LAMBDA called :
    IF ~llm.ok
      THEN Normal(called,
                  [error             |-> llm.error,
                   base_analysis     |-> analysis,
                   base_architecture |-> architecture,
                   features_content  |-> <<>>,
                   metadata          |-> [agent |-> "FeaturePlanner",
                                          error |-> TRUE]])
    ELSE
  Then([base_analysis      |-> analysis,
        base_architecture  |-> architecture,
        features_content   |-> llm.text,
        metadata           |-> [agent |-> "FeaturePlanner",
                                version |-> config_version,
                                inputs |-> <<"analysis", "architecture">>],
        feature_categories |-> _extract_feature_categories(llm.text),
        timeline           |-> _extract_timeline(llm.text)],
       LAMBDA features_result :
    IF detailed_features /\ ~IsNone(output_dir)
      THEN Then(generate_detailed_features(called, features_result,
                                           output_dir, detail_envs),
                LAMBDA detailed_specs :
                  Normal(detailed_specs.world,
                         DictSet(features_result, "detailed_features",
                                 detailed_specs.value)))
      ELSE Normal(called, features_result)))

\* ------------------------------------------------------------------------
\* RefinerAgent (src/agents/refiner.py)
\* ------------------------------------------------------------------------

HeaderLines(text) == SelectSeq(SplitLines(text), IsHeadingLine)

_identify_improvements(original, refined) ==
  LET original_lines   == Len(SplitLines(original))
      refined_lines    == Len(SplitLines(refined))
      original_headers == HeaderLines(original)
      refined_headers  == HeaderLines(refined)
      original_lists   == Count(original, <<"-", " ">>)
      refined_lists    == Count(refined, <<"-", " ">>)
  IN  (IF refined_lines > original_lines
         THEN << <<"Expanded content", original_lines, refined_lines>> >>
         ELSE <<>>)
      \o
      (IF Len(refined_headers) > Len(original_headers)
         THEN << <<"Added new sections", Len(refined_headers) - Len(original_headers)>> >>
         ELSE <<>>)
      \o
      (IF Contains(refined, <<"#", "#">>) /\ ~Contains(original, <<"#", "#">>)
         THEN << <<"Improved document structure with sub-sections">> >>
         ELSE <<>>)
      \o
      (IF refined_lists > original_lists
         THEN << <<"Added new list items", refined_lists - original_lists>> >>
         ELSE <<>>)

\* refine_content whose error result hands back the empty string
refine_content_dropping_content(content, fb, content_type, llm) ==
  IF llm.ok
    THEN [original_content    |-> content,
          refined_content     |-> llm.text,
          feedback            |-> fb,
          content_type        |-> content_type,
          refinement_strategy |-> _analyze_feedback(fb),
          metadata            |-> [agent |-> "Refiner",
                                   version |-> config_version,
                                   refinement_round |-> 1],
          improvements        |-> _identify_improvements(content, llm.text)]
    ELSE [error            |-> llm.error,
          original_content |-> content,
          refined_content  |-> <<>>,
          feedback         |-> fb,
          metadata         |-> [agent |-> "Refiner", error |-> TRUE]]

\* refine_content: llm is the outcome of its one completion call
refine_content(content, fb, content_type, llm) ==
  IF llm.ok
    THEN [original_content    |-> content,
          refined_content     |-> llm.text,
          feedback            |-> fb,
          content_type        |-> content_type,
          refinement_strategy |-> _analyze_feedback(fb),
          metadata            |-> [agent |-> "Refiner",
                                   version |-> config_version,
                                   refinement_round |-> 1],
          improvements        |-> _identify_improvements(content, llm.text)]
    ELSE [error            |-> llm.error,
          original_content |-> content,
          refined_content  |-> content,
          feedback         |-> fb,
          metadata         |-> [agent |-> "Refiner", error |-> TRUE]]

\* the loop variable is never updated: every round refines the original
NextRoundContent_unthreaded(refinement_result, current) == current

\* current_content = refinement_result.get('refined_content', current_content)
NextRoundContent(refinement_result, current) ==
  Get(refinement_result, "refined_content", current)

\* the record iterative_refinement appends for round i
HistoryRecord(i, fb, refinement_result) ==
  [round        |-> i,
   feedback     |-> fb,
   strategy     |-> Get(refinement_result, "refinement_strategy", None),
   improvements |-> Get(refinement_result, "improvements", <<>>)]

\* ------------------------------------------------------------------------
\* The text a save operation formats and writes (the f-string templates of
\* save_analysis, save_architecture, save_feature_plan and save_document)
\* ------------------------------------------------------------------------

tpl_analysis_1 ==
  <<"#"," ","P","r","o","j","e","c","t"," ","A","n","a","l","y","s","i","s",
    " ","O","v","e","r","v","i","e","w","\n","\n","#","#"," ","R","a","w"," ",
    "R","e","q","u","i","r","e","m","e","n","t","s","\n">>

tpl_analysis_2 ==
  <<"\n","\n","#","#"," ","A","n","a","l","y","s","i","s"," ","C","o","n","t",
    "e","n","t","\n">>

tpl_metadata_agent ==
  <<"\n","\n","#","#"," ","M","e","t","a","d","a","t","a","\n","-"," ","A",
    "g","e","n","t",":"," ">>

tpl_version ==
  <<"\n","-"," ","V","e","r","s","i","o","n",":"," ">>

tpl_generated ==
  <<"\n","-"," ","G","e","n","e","r","a","t","e","d",":"," ">>

tpl_based_on ==
  <<"\n","-"," ","B","a","s","e","d"," ","o","n",":"," ">>

tpl_architecture_1 ==
  <<"#"," ","S","y","s","t","e","m"," ","A","r","c","h","i","t","e","c","t",
    "u","r","e"," ","D","e","s","i","g","n","\n","\n","#","#"," ","A","r","c",
    "h","i","t","e","c","t","u","r","e"," ","O","v","e","r","v","i","e","w",
    "\n">>

tpl_components ==
  <<"\n","\n","#","#"," ","S","y","s","t","e","m"," ","C","o","m","p","o","n",
    "e","n","t","s","\n">>

tpl_backend ==
  <<"\n","\n","#","#"," ","T","e","c","h","n","o","l","o","g","y"," ","S","t",
    "a","c","k","\n","\n","#","#","#"," ","B","a","c","k","e","n","d","\n">>

tpl_frontend ==
  <<"\n","\n","#","#","#"," ","F","r","o","n","t","e","n","d","\n">>

tpl_mobile ==
  <<"\n","\n","#","#","#"," ","M","o","b","i","l","e","\n">>

tpl_database ==
  <<"\n","\n","#","#","#"," ","D","a","t","a","b","a","s","e","\n">>

tpl_infrastructure ==
  <<"\n","\n","#","#","#"," ","I","n","f","r","a","s","t","r","u","c","t","u",
    "r","e","\n">>

tpl_features_1 ==
  <<"#"," ","F","e","a","t","u","r","e"," ","P","l","a","n","\n","\n","#","#",
    " ","F","e","a","t","u","r","e"," ","O","v","e","r","v","i","e","w","\n">>

tpl_core ==
  <<"\n","\n","#","#"," ","F","e","a","t","u","r","e"," ","C","a","t","e","g",
    "o","r","i","e","s","\n","\n","#","#","#"," ","C","o","r","e"," ","F","e",
    "a","t","u","r","e","s"," ","(","M","u","s","t","-","H","a","v","e",")",
    "\n">>

tpl_enhanced ==
  <<"\n","\n","#","#","#"," ","E","n","h","a","n","c","e","d"," ","F","e","a",
    "t","u","r","e","s"," ","(","S","h","o","u","l","d","-","H","a","v","e",
    ")","\n">>

tpl_optional ==
  <<"\n","\n","#","#","#"," ","O","p","t","i","o","n","a","l"," ","F","e","a",
    "t","u","r","e","s"," ","(","N","i","c","e","-","t","o","-","H","a","v",
    "e",")","\n">>

tpl_timeline ==
  <<"\n","\n","#","#"," ","I","m","p","l","e","m","e","n","t","a","t","i","o",
    "n"," ","T","i","m","e","l","i","n","e","\n">>

tpl_document_metadata ==
  <<"\n","\n","-","-","-","\n","\n","#","#"," ","D","o","c","u","m","e","n",
    "t"," ","M","e","t","a","d","a","t","a","\n","-"," ","D","o","c","u","m",
    "e","n","t"," ","T","y","p","e",":"," ">>

tpl_generated_by ==
  <<"\n","-"," ","G","e","n","e","r","a","t","e","d"," ","b","y",":"," ">>

tpl_project_version ==
  <<"\n","-"," ","P","r","o","j","e","c","t"," ","V","e","r","s","i","o","n",
    ":"," ">>

chars_na ==
  <<"N","/","A">>

chars_unknown ==
  <<"U","n","k","n","o","w","n">>

chars_document ==
  <<"d","o","c","u","m","e","n","t">>

project_name ==
  <<"A","I"," ","B","u","i","l","d","e","r"," ","P","r","o","j","e","c","t">>

\* the characters of the short strings the artifacts carry as values
Chars(str) ==
  CASE str = "Analyzer" -> <<"A","n","a","l","y","z","e","r">>
    [] str = "Architect" -> <<"A","r","c","h","i","t","e","c","t">>
    [] str = "FeaturePlanner" -> <<"F","e","a","t","u","r","e","P","l","a","n","n","e","r">>
    [] str = "DocumentWriter" -> <<"D","o","c","u","m","e","n","t","W","r","i","t","e","r">>
    [] str = "Refiner" -> <<"R","e","f","i","n","e","r">>
    [] str = "Unknown" -> <<"U","n","k","n","o","w","n">>
    [] str = "v1" -> <<"v","1">>
    [] str = "v2" -> <<"v","2">>
    [] str = "1.0" -> <<"1",".","0">>
    [] str = "analysis" -> <<"a","n","a","l","y","s","i","s">>
    [] str = "architecture" -> <<"a","r","c","h","i","t","e","c","t","u","r","e">>
    [] str = "features" -> <<"f","e","a","t","u","r","e","s">>
    [] str = "brd" -> <<"b","r","d">>
    [] str = "srs" -> <<"s","r","s">>
    [] str = "document" -> <<"d","o","c","u","m","e","n","t">>

UpperChar(c) ==
  IF \E i \in 1..Len(LowerAlphabet) : LowerAlphabet[i] = c
    THEN UpperAlphabet[CHOOSE i \in 1..Len(LowerAlphabet) : LowerAlphabet[i] = c]
    ELSE c

\* str.upper()
Upper(s) == AsTuple([i \in 1..Len(s) |-> UpperChar(s[i])])

\* sep.join(pieces)
RECURSIVE Join(_, _)
Join(pieces, sep) ==
  IF pieces = <<>> THEN <<>>
  ELSE IF Len(pieces) = 1 THEN pieces[1]
  ELSE pieces[1] \o sep \o Join(Tail(pieces), sep)

\* chr(10).join(f"- {item}" for item in items)
Bullets(items) ==
  Join([i \in 1..Len(items) |-> <<"-", " ">> \o items[i]], <<"\n">>)

\* the elements of a set in the order a Python set happens to iterate them;
\* what the model derives from a rendered list does not depend on the order
RECURSIVE SetToSeq(_)
SetToSeq(S) ==
  IF S = {} THEN <<>>
  ELSE LET x == CHOOSE y \in S : TRUE IN <<x>> \o SetToSeq(S \ {x})

\* artifact.get('metadata', {}).get(key, 'Unknown')
MetaChars(artifact, key) ==
  LET metadata == Get(artifact, "metadata", EmptyDict) IN
  IF key \in DOMAIN metadata THEN Chars(metadata[key]) ELSE chars_unknown

\* ', '.join(artifact.get('metadata', {}).get('inputs', []))
InputsChars(artifact) ==
  LET inputs == Get(Get(artifact, "metadata", EmptyDict), "inputs", <<>>) IN
  Join([i \in 1..Len(inputs) |-> Chars(inputs[i])], <<",", " ">>)

RenderAnalysis(analysis) ==
  tpl_analysis_1 \o Get(analysis, "raw_requirements", chars_na)
    \o tpl_analysis_2 \o Get(analysis, "analysis_content", chars_na)
    \o tpl_metadata_agent \o MetaChars(analysis, "agent")
    \o tpl_version \o MetaChars(analysis, "version")
    \o tpl_generated \o MetaChars(analysis, "timestamp") \o <<"\n">>

RenderArchitecture(architecture) ==
  LET stack == Get(architecture, "technology_stack", EmptyDict) IN
  tpl_architecture_1 \o Get(architecture, "architecture_content", chars_na)
    \o tpl_components \o Bullets(SetToSeq(Get(architecture, "components", {})))
    \o tpl_backend \o Bullets(Get(stack, "backend", <<>>))
    \o tpl_frontend \o Bullets(Get(stack, "frontend", <<>>))
    \o tpl_mobile \o Bullets(Get(stack, "mobile", <<>>))
    \o tpl_database \o Bullets(Get(stack, "database", <<>>))
    \o tpl_infrastructure \o Bullets(Get(stack, "infrastructure", <<>>))
    \o tpl_metadata_agent \o MetaChars(architecture, "agent")
    \o tpl_version \o MetaChars(architecture, "version")
    \o tpl_based_on \o MetaChars(architecture, "based_on") \o <<"\n">>

\* chr(10).join(f"**{phase}**: {desc}" for phase, desc in timeline.items())
TimelineChars(timeline) ==
  Join([i \in 1..Len(timeline) |->
          <<"*", "*">> \o timeline[i][1] \o <<"*", "*", ":", " ">>
            \o timeline[i][2]],
       <<"\n">>)

RenderFeaturePlan(features) ==
  LET categories == Get(features, "feature_categories", EmptyDict) IN
  tpl_features_1 \o Get(features, "features_content", chars_na)
    \o tpl_core \o Bullets(Get(categories, "core", <<>>))
    \o tpl_enhanced \o Bullets(Get(categories, "enhanced", <<>>))
    \o tpl_optional \o Bullets(Get(categories, "optional", <<>>))
    \o tpl_timeline \o TimelineChars(Get(features, "timeline", <<>>))
    \o tpl_metadata_agent \o MetaChars(features, "agent")
    \o tpl_version \o MetaChars(features, "version")
    \o tpl_based_on \o InputsChars(features) \o <<"\n">>

RenderDocument(document) ==
  LET doc_type == Upper(Chars(Get(document, "document_type", "document")))
      metadata == Get(document, "metadata", EmptyDict)
  IN  <<"#", " ">> \o doc_type \o <<" ", "-", " ">> \o project_name
        \o <<"\n", "\n">> \o Get(document, "content", chars_na)
        \o tpl_document_metadata \o doc_type
        \o tpl_version \o Chars(Get(metadata, "document_version", "1.0"))
        \o tpl_generated_by \o MetaChars(document, "agent")
        \o tpl_based_on \o InputsChars(document)
        \o tpl_project_version \o MetaChars(document, "version") \o <<"\n">>

\* f.read() of a markdown file an agent wrote
ReadFile(entry) ==
  CASE entry.writer = "save_analysis" -> RenderAnalysis(entry.document)
    [] entry.writer = "save_architecture" -> RenderArchitecture(entry.document)
    [] entry.writer = "save_feature_plan" -> RenderFeaturePlan(entry.document)
    [] entry.writer = "save_document" -> RenderDocument(entry.document)
    [] entry.writer = "generate_detailed_features" -> entry.document

\* ------------------------------------------------------------------------
\* ValidatorAgent (src/agents/validator.py)
\* ------------------------------------------------------------------------

sec_executive_summary ==
  <<"E","x","e","c","u","t","i","v","e"," ","S","u","m","m","a","r","y">>

sec_business_objectives ==
  <<"B","u","s","i","n","e","s","s"," ","O","b","j","e","c","t","i","v","e",
    "s">>

sec_functional_requirements ==
  <<"F","u","n","c","t","i","o","n","a","l"," ","R","e","q","u","i","r","e",
    "m","e","n","t","s">>

sec_non_functional_requirements ==
  <<"N","o","n","-","f","u","n","c","t","i","o","n","a","l"," ","R","e","q",
    "u","i","r","e","m","e","n","t","s">>

sec_system_overview ==
  <<"S","y","s","t","e","m"," ","O","v","e","r","v","i","e","w">>

sec_functional_specifications ==
  <<"F","u","n","c","t","i","o","n","a","l"," ","S","p","e","c","i","f","i",
    "c","a","t","i","o","n","s">>

sec_technical_requirements ==
  <<"T","e","c","h","n","i","c","a","l"," ","R","e","q","u","i","r","e","m",
    "e","n","t","s">>

sec_interface_requirements ==
  <<"I","n","t","e","r","f","a","c","e"," ","R","e","q","u","i","r","e","m",
    "e","n","t","s">>

\* self.validation_rules[doc_type]['required_sections']
required_sections(doc_type) ==
  IF doc_type = "brd"
    THEN <<sec_executive_summary, sec_business_objectives,
           sec_functional_requirements, sec_non_functional_requirements>>
  ELSE IF doc_type = "srs"
    THEN <<sec_system_overview, sec_functional_specifications,
           sec_technical_requirements, sec_interface_requirements>>
  ELSE <<>>

LongLineLen == 200
ShortDocumentLines == 5
ErrorPenalty == 20
WarningPenalty == 5
ValidScore == 70

\* _check_basic_format: the findings it appends to result
_check_basic_format(content, result) ==
  IF Strip(content) = <<>>
    THEN [result EXCEPT !.errors = Append(@, <<"Document is empty">>)]
    ELSE
      Then(SplitLines(content), LAMBDA lines :
      Then(SelectSeq([i \in 1..Len(lines) |-> <<i, Len(lines[i])>>],
                     LAMBDA numbered : numbered[2] > LongLineLen),
           LAMBDA long :
        [result EXCEPT !.warnings =
           @ \o [i \in 1..Len(long) |->
                   <<"Line is very long", long[i][1], long[i][2]>>]
             \o (IF Len(lines) < ShortDocumentLines
                   THEN << <<"Document seems too short">> >> ELSE <<>>)]))

\* len(line) - len(line.lstrip('#'))
HeaderLevel(line) == Len(line) - Len(LStripChars(line, {"#"}))

_check_markdown_structure(content, result) ==
  Then(SelectSeq(SplitLines(content), IsHeadingLine), LAMBDA header_lines :
  Then(AsTuple([i \in 1..Len(header_lines) |-> HeaderLevel(header_lines[i])]),
       LAMBDA header_levels :
    [result EXCEPT
       !.errors   = @ \o (IF header_lines = <<>>
                            THEN << <<"No markdown headers found">> >>
                            ELSE <<>>),
       !.warnings = @ \o (IF \E i \in 2..Len(header_levels) :
                               header_levels[i] > header_levels[i - 1] + 1
                            THEN << <<"Header level skipped - poor hierarchy">> >>
                            ELSE <<>>)]))

\* _check_document_sections that appends no finding
_check_document_sections_skipped(content, doc_type, result) == result

_check_document_sections(content, doc_type, result) ==
  LET content_lower    == Lower(content)
      missing_sections == SelectSeq(required_sections(doc_type),
                                    LAMBDA section :
                                      ~Contains(content_lower, Lower(section)))
  IN  [result EXCEPT !.errors =
         @ \o [i \in 1..Len(missing_sections) |->
                 <<"Missing required section", missing_sections[i]>>]]

Max(a, b) == IF a >= b THEN a ELSE b

\* the score without the lower limit
_calculate_score_unclamped(result) ==
  100 - Len(result.errors) * ErrorPenalty - Len(result.warnings) * WarningPenalty

\* the score when a warning adds to it
_calculate_score_rewarding_warnings(result) ==
  Max(0, 100 - Len(result.errors) * ErrorPenalty
             + Len(result.warnings) * WarningPenalty)

_calculate_score(result) ==
  Max(0, 100 - Len(result.errors) * ErrorPenalty
             - Len(result.warnings) * WarningPenalty)

validate_document(content, doc_type) ==
  Then(_check_basic_format(content, [errors |-> <<>>, warnings |-> <<>>]),
       LAMBDA basic :
  Then(IF doc_type \in {"markdown", "brd", "srs"}
         THEN _check_markdown_structure(content, basic) ELSE basic,
       LAMBDA structured :
  Then(IF doc_type \in {"brd", "srs"}
         THEN _check_document_sections(content, doc_type, structured)
         ELSE structured,
       LAMBDA sectioned :
  Then(_calculate_score(sectioned), LAMBDA score :
    [valid |-> score >= ValidScore, errors |-> sectioned.errors,
     warnings |-> sectioned.warnings, score |-> score,
     suggestions |-> <<>>]))))

\* file.endswith('.md')
EndsWith(s, suffix) ==
  Len(suffix) <= Len(s) /\ SubSeq(s, Len(s) - Len(suffix) + 1, Len(s)) = suffix

\* the kind inferred from the file name as it is written
DocTypeOfFile_case_sensitive(name) ==
  IF Contains(name, chars_brd) THEN "brd"
  ELSE IF Contains(name, chars_srs) THEN "srs"
  ELSE "markdown"

\* the document kind validate_project_output infers from the file name
DocTypeOfFile(name) ==
  LET filename == Lower(name) IN
  IF Contains(filename, chars_brd) THEN "brd"
  ELSE IF Contains(filename, chars_srs) THEN "srs"
  ELSE "markdown"

\* ValidatorAgent.validate_file; the file was written by this program and
\* reading it back succeeds
validate_file(a_disk, file_path, doc_type) ==
  validate_document(ReadFile(a_disk[file_path]), doc_type)
    @@ [file_path |-> file_path]

RECURSIVE SumScores(_, _)
SumScores(results, paths) ==
  IF paths = {} THEN 0
  ELSE LET path == CHOOSE q \in paths : TRUE IN
       results[path].score + SumScores(results, paths \ {path})

\* ValidatorAgent.validate_project_output.  The output directory exists
\* (the orchestrator created it); the files of os.walk are the markdown
\* files on disk below it.  average_score is the quotient total / count.
validate_project_output(a_disk, output_dir) ==
  Then({path \in DOMAIN a_disk :
          path.base = output_dir /\ EndsWith(path.name, ext_md)},
       LAMBDA md_files :
  Then({<<path, validate_file(a_disk, path, DocTypeOfFile(path.name))>> :
          path \in md_files},
       LAMBDA results :
  Then([path \in md_files |->
          (CHOOSE result \in results : result[1] = path)[2]],
       LAMBDA files :
  Then({path \in md_files : files[path].valid}, LAMBDA valid_files :
    [overall_valid |-> valid_files = md_files,
     files   |-> files,
     summary |-> [total_files   |-> Cardinality(md_files),
                  valid_files   |-> Cardinality(valid_files),
                  average_score |->
                    IF md_files = {} THEN [total |-> 0, count |-> 1]
                    ELSE [total |-> SumScores(files, md_files),
                          count |-> Cardinality(md_files)]]]))))

\* ------------------------------------------------------------------------
\* The save operations of the agents: each writes one file and re-raises
\* what the write raises
\* ------------------------------------------------------------------------

save_analysis(world, analysis, output_dir, ok) ==
  WriteFile(world, FilePath(output_dir, name_analysis_overview),
            FileOf("save_analysis", analysis), ok)

save_architecture(world, architecture, output_dir, ok) ==
  WriteFile(world, FilePath(output_dir, name_system_architecture),
            FileOf("save_architecture", architecture), ok)

save_feature_plan(world, features, output_dir, ok) ==
  WriteFile(world, FilePath(output_dir, name_feature_list),
            FileOf("save_feature_plan", features), ok)

save_document(world, document, output_dir, ok) ==
  LET doc_type == Get(document, "document_type", "document") IN
  WriteFile(world, FilePath(output_dir, DocTypeChars(doc_type) \o ext_md),
            FileOf("save_document", document), ok)

\* ------------------------------------------------------------------------
\* AIBuilderOrchestrator (src/orchestrator.py): the six stages.  env tells
\* how the operations of the environment the stage reaches end.
\* ------------------------------------------------------------------------

StageNames ==
  <<"analysis", "architecture", "features", "documents", "validation", "final">>

\* except Exception as e: raise
StageFailed_reraises(error) == Exception(error)

\* except Exception as e: a failed state that still carries a files list
StageFailed_with_files(error) ==
  [status |-> "failed", error |-> error, files |-> <<>>]

\* except Exception as e: return {"status": "failed", "error": str(e)}
StageFailed(error) == [status |-> "failed", error |-> error]

StageReturns(world, state) == [state |-> state, world |-> world]

\* the k-th add_document call of the stage succeeds
AddOk(env, k) == env.index_fail_at /= k

\* a failed upstream stage stands in with placeholder texts
ResultOf_placeholder(state) ==
  Get(state, "result",
      [analysis_content |-> chars_na, architecture_content |-> chars_na,
       features_content |-> chars_na])

\* state.get("result", {})
ResultOf(state) == Get(state, "result", EmptyDict)

bnm_prompt(bnm, market) ==
  [name |-> "bnm_analysis", bnm |-> bnm,
   context |-> IF market = <<>> THEN EmptyDict ELSE market]

\* context.get("business_needs") is not None and
\* context.get("market_context") is not None
HasBusinessNeeds(a_context) ==
  "business_needs" \in DOMAIN a_context /\ "market_context" \in DOMAIN a_context

_run_analysis(world, a_requirements, a_context, env) ==
  Then(analyze_requirements(a_requirements, a_context, env.llm),
       LAMBDA analysis_result :
  Then(Completed(world, analysis_prompt(a_requirements, a_context), env.llm),
       LAMBDA analysed :
    IF IsException(analysis_result)
      THEN StageReturns(analysed, StageFailed(analysis_result.error))
    ELSE IF IsNone(a_context)
      \* None has no attribute get
      THEN StageReturns(analysed, StageFailed("AttributeError"))
    ELSE
  Then(IF HasBusinessNeeds(a_context)
         THEN Completed(analysed,
                        bnm_prompt(a_context.business_needs,
                                   a_context.market_context),
                        env.bnm_llm)
         ELSE analysed,
       LAMBDA bnm :
  Then(save_analysis(bnm, analysis_result, OutputDir(output_base, 1),
                     env.save_ok),
       LAMBDA saved :
    IF saved.raised
      THEN StageReturns(saved.world, StageFailed(saved.error))
    ELSE
  Then(add_document(saved.world,
                    Get(analysis_result, "analysis_content", <<>>),
                    [type |-> "analysis", agent |-> "analyzer",
                     version |-> version, file_path |-> saved.value],
                    AddOk(env, 1)),
       LAMBDA added :
    IF added.raised
      THEN StageReturns(added.world, StageFailed(added.error))
    ELSE
  Then(log_history(added.world, "analysis_complete", <<saved.value>>,
                   version, [agent |-> "analyzer"], env.log),
       LAMBDA logged :
    IF logged.raised
      THEN StageReturns(logged.world, StageFailed(logged.error))
      ELSE StageReturns(logged.world,
                        [result |-> analysis_result,
                         files  |-> <<saved.value>>,
                         status |-> "completed"])))))))

_run_architecture(world, analysis_state, env) ==
  Then(ResultOf(analysis_state), LAMBDA analysis_result :
  Then(design_architecture(analysis_result, env.llm),
       LAMBDA architecture_result :
  Then(Completed(world, architecture_prompt(analysis_result), env.llm),
       LAMBDA designed :
    IF IsException(architecture_result)
      THEN StageReturns(designed, StageFailed(architecture_result.error))
    ELSE
  Then(save_architecture(designed, architecture_result,
                         OutputDir(output_base, 2), env.save_ok),
       LAMBDA saved :
    IF saved.raised
      THEN StageReturns(saved.world, StageFailed(saved.error))
    ELSE
  Then(add_document(saved.world,
                    Get(architecture_result, "architecture_content", <<>>),
                    [type |-> "architecture", agent |-> "architect",
                     version |-> version, file_path |-> saved.value],
                    AddOk(env, 1)),
       LAMBDA added :
    IF added.raised
      THEN StageReturns(added.world, StageFailed(added.error))
    ELSE
  Then(log_history(added.world, "architecture_complete", <<saved.value>>,
                   version, [agent |-> "architect"], env.log),
       LAMBDA logged :
    IF logged.raised
      THEN StageReturns(logged.world, StageFailed(logged.error))
      ELSE StageReturns(logged.world,
                        [result |-> architecture_result,
                         files  |-> <<saved.value>>,
                         status |-> "completed"])))))))

\* v for v in detailed_features.values()
\*   if isinstance(v, dict) and "file_path" in v
DetailedFiles(detailed_features) ==
  LET with_file == SelectSeq(detailed_features,
                             LAMBDA item : "file_path" \in DOMAIN item[2])
  IN  [i \in 1..Len(with_file) |-> with_file[i][2].file_path]

\* list(detailed_features.keys()) if detailed_features else None
DetailedKeys(detailed_features) ==
  [i \in 1..Len(detailed_features) |-> detailed_features[i][1]]

\* for feature, detail in detailed_features.items(): add_document(...), from
\* item number i on; k add_document calls were made before
RECURSIVE AddDetails(_, _, _, _, _)
AddDetails(world, detailed_features, i, k, env) ==
  IF i > Len(detailed_features)
    THEN Normal(world, k)
  ELSE IF ~({"content", "file_path"} \subseteq DOMAIN detailed_features[i][2])
    THEN AddDetails(world, detailed_features, i + 1, k, env)
  ELSE
    LET feature == detailed_features[i][1]
        detail  == detailed_features[i][2]
        added   == add_document(world, detail.content,
                                [type |-> "feature_detail",
                                 agent |-> "feature_planner",
                                 feature |-> feature,
                                 version |-> version,
                                 file_path |-> detail.file_path],
                                AddOk(env, k + 1))
    IN  IF added.raised THEN added
        ELSE AddDetails(added.world, detailed_features, i + 1, k + 1, env)

_run_feature_planning(world, analysis_state, architecture_state, generate_detailed, env) ==
  Then(plan_features(world, ResultOf(analysis_state),
                     ResultOf(architecture_state), TRUE,
                     OutputDir(output_base, 3), env.llm, env.details),
       LAMBDA planned :
    IF planned.raised
      THEN StageReturns(planned.world, StageFailed(planned.error))
    ELSE
  Then(planned.value, LAMBDA features_result :
  Then(save_feature_plan(planned.world, features_result,
                         OutputDir(output_base, 3), env.save_ok),
       LAMBDA saved :
    IF saved.raised
      THEN StageReturns(saved.world, StageFailed(saved.error))
    ELSE
  Then(Get(features_result, "detailed_features", <<>>),
       LAMBDA detailed_features :
  Then(<<saved.value>> \o DetailedFiles(detailed_features),
       LAMBDA files :
  Then(AddDetails(saved.world, detailed_features, 1, 0, env),
       LAMBDA details_added :
    IF details_added.raised
      THEN StageReturns(details_added.world, StageFailed(details_added.error))
    ELSE
  Then(add_document(details_added.world,
                    Get(features_result, "features_content", <<>>),
                    [type |-> "features", agent |-> "feature_planner",
                     version |-> version, file_path |-> saved.value],
                    AddOk(env, details_added.value + 1)),
       LAMBDA added :
    IF added.raised
      THEN StageReturns(added.world, StageFailed(added.error))
    ELSE
  Then(log_history(added.world, "features_complete", files, version,
                   [agent |-> "feature_planner",
                    detailed_features |->
                      IF detailed_features /= <<>>
                        THEN DetailedKeys(detailed_features)
                        ELSE PyNone],
                   env.log),
       LAMBDA logged :
    IF logged.raised
      THEN StageReturns(logged.world, StageFailed(logged.error))
      ELSE StageReturns(logged.world,
                        [result |-> features_result,
                         files  |-> files,
                         detailed_features |-> detailed_features,
                         status |-> "completed"])))))))))

_run_document_generation(world, analysis_state, architecture_state, features_state, env) ==
  Then(ResultOf(analysis_state), LAMBDA analysis_result :
  Then(ResultOf(architecture_state), LAMBDA architecture_result :
  Then(ResultOf(features_state), LAMBDA features_result :
  Then(generate_brd(analysis_result, features_result, env.brd_llm),
       LAMBDA brd_result :
  Then(Completed(world, brd_prompt(analysis_result, features_result),
                 env.brd_llm),
       LAMBDA brd_called :
    IF IsException(brd_result)
      THEN StageReturns(brd_called, StageFailed(brd_result.error))
    ELSE
  Then(save_document(brd_called, brd_result, OutputDir(output_base, 4),
                     env.save_brd_ok),
       LAMBDA brd_saved :
    IF brd_saved.raised
      THEN StageReturns(brd_saved.world, StageFailed(brd_saved.error))
    ELSE
  Then(generate_srs(analysis_result, architecture_result, features_result,
                    env.srs_llm),
       LAMBDA srs_result :
  Then(Completed(brd_saved.world,
                 srs_prompt(analysis_result, architecture_result,
                            features_result),
                 env.srs_llm),
       LAMBDA srs_called :
    IF IsException(srs_result)
      THEN StageReturns(srs_called, StageFailed(srs_result.error))
    ELSE
  Then(save_document(srs_called, srs_result, OutputDir(output_base, 4),
                     env.save_srs_ok),
       LAMBDA srs_saved :
    IF srs_saved.raised
      THEN StageReturns(srs_saved.world, StageFailed(srs_saved.error))
    ELSE
  Then(add_document(srs_saved.world, Get(brd_result, "content", <<>>),
                    [type |-> "brd", agent |-> "document_writer",
                     version |-> version, file_path |-> brd_saved.value],
                    AddOk(env, 1)),
       LAMBDA brd_added :
    IF brd_added.raised
      THEN StageReturns(brd_added.world, StageFailed(brd_added.error))
    ELSE
  Then(add_document(brd_added.world, Get(srs_result, "content", <<>>),
                    [type |-> "srs", agent |-> "document_writer",
                     version |-> version, file_path |-> srs_saved.value],
                    AddOk(env, 2)),
       LAMBDA srs_added :
    IF srs_added.raised
      THEN StageReturns(srs_added.world, StageFailed(srs_added.error))
    ELSE
  Then(log_history(srs_added.world, "documents_complete",
                   <<brd_saved.value, srs_saved.value>>, version,
                   [agent |-> "document_writer",
                    documents |-> <<"brd", "srs">>],
                   env.log),
       LAMBDA logged :
    IF logged.raised
      THEN StageReturns(logged.world, StageFailed(logged.error))
      ELSE StageReturns(logged.world,
                        [result |-> [brd |-> brd_result, srs |-> srs_result],
                         files  |-> <<brd_saved.value, srs_saved.value>>,
                         status |-> "completed"])))))))))))))

\* validation_result is what validator.validate_project_output(
\* self.output_base) returned at the start of the stage
_run_validation(world, validation_result, env) ==
  LET validation_file   == FilePath(OutputDir(output_base, 5),
                                    name_validation_report)
      written == WriteFile(world, validation_file,
                           FileOf("_run_validation", validation_result),
                           env.save_ok)
  IN  IF written.raised
        THEN StageReturns(written.world, StageFailed(written.error))
        ELSE
          LET logged ==
                log_history(written.world, "validation_complete",
                            <<validation_file>>, version,
                            [agent |-> "validator",
                             overall_valid |->
                               Get(validation_result, "overall_valid", FALSE),
                             average_score |->
                               validation_result.summary.average_score],
                            env.log)
          IN  IF logged.raised
                THEN StageReturns(logged.world, StageFailed(logged.error))
                ELSE StageReturns(logged.world,
                                  [result |-> validation_result,
                                   files  |-> <<validation_file>>,
                                   status |-> "completed"])

\* build_result['states'][name], a key the report template subscripts
StateOf(a_build_result, name) ==
  (CHOOSE item \in {a_build_result.states[i] : i \in 1..Len(a_build_result.states)} :
     item[1] = name)[2]

\* state.get('files', []) for state in build_result['states'].values()
RECURSIVE GeneratedFiles(_)
GeneratedFiles(states) ==
  IF states = <<>> THEN <<>>
  ELSE Get(Head(states)[2], "files", <<>>) \o GeneratedFiles(Tail(states))

\* a report that shows every phase as completed
report_content_all_completed(a_build_result) ==
  [project_name |-> project_name,
   version      |-> version,
   requirements |-> a_build_result.requirements,
   phases       |->
     [i \in 1..4 |-> [name |-> StageNames[i], status |-> "completed", files |-> 0]],
   validation   |-> [status |-> "completed", overall_valid |-> TRUE],
   generated_files |-> GeneratedFiles(a_build_result.states),
   document_count  |-> Cardinality(DOMAIN index)]

\* what the f-string of _generate_final_report puts into the report
report_content(a_build_result) ==
  [project_name |-> project_name,
   version      |-> version,
   requirements |-> a_build_result.requirements,
   phases       |->
     [i \in 1..4 |->
        [name   |-> StageNames[i],
         status |-> StateOf(a_build_result, StageNames[i]).status,
         files  |-> Len(Get(StateOf(a_build_result, StageNames[i]),
                            "files", <<>>))]],
   validation   |->
     [status        |-> StateOf(a_build_result, "validation").status,
      overall_valid |-> Get(Get(StateOf(a_build_result, "validation"),
                                "result", EmptyDict),
                            "overall_valid", FALSE)],
   generated_files |-> GeneratedFiles(a_build_result.states),
   document_count  |-> Cardinality(DOMAIN index)]

_generate_final_report(world, a_build_result, env) ==
  LET report      == report_content(a_build_result)
      report_file == FilePath(OutputDir(output_base, 6), name_final_report)
      written     == WriteFile(world, report_file,
                               FileOf("_generate_final_report", report),
                               env.save_ok)
  IN  IF written.raised
        THEN StageReturns(written.world, StageFailed(written.error))
        ELSE
          LET logged ==
                log_history(written.world, "final_report_complete",
                            <<report_file>>, version,
                            [agent |-> "orchestrator",
                             total_files |-> Len(a_build_result.files)],
                            env.log)
          IN  IF logged.raised
                THEN StageReturns(logged.world, StageFailed(logged.error))
                ELSE StageReturns(logged.world,
                                  [result |-> [report_content |-> report],
                                   files  |-> <<report_file>>,
                                   status |-> "completed"])

\* RefinerAgent.save_refinement with an explicit filename
save_refinement(world, refined_doc, output_dir, filename, ok) ==
  WriteFile(world, FilePath(output_dir, filename),
            FileOf("save_refinement", refined_doc), ok)

refinement_prompt(content, fb, content_type) ==
  [name |-> "refinement", content |-> content, feedback |-> fb,
   content_type |-> content_type]

\* for doc_type, doc_result in docs_state["result"].items(), from item i on;
\* value counts the refine_content calls made
RECURSIVE RefineDocuments(_, _, _, _, _, _)
RefineDocuments(world, doc_types, documents, i, fb, envs) ==
  IF i > Len(doc_types)
    THEN Normal(world, i - 1)
    ELSE
      Then(doc_types[i], LAMBDA doc_type :
      Then(Get(documents[doc_type], "content", <<>>), LAMBDA content :
      Then(refine_content(content, fb, doc_type, envs[i].llm),
           LAMBDA refined_doc :
      Then(Completed(world, refinement_prompt(content, fb, doc_type),
                     envs[i].llm),
           LAMBDA called :
      Then(save_refinement(called, refined_doc,
                           SubDir(OutputDir(output_base, 4), "refined"),
                           chars_refined_ \o Chars(doc_type) \o ext_md,
                           envs[i].save_ok),
           LAMBDA saved :
        IF saved.raised THEN saved
        ELSE RefineDocuments(saved.world, doc_types, documents, i + 1,
                             fb, envs))))))

\* the documents refine_with_feedback finds in self.build_state
RecordedDocuments ==
  LET docs_state == Get(build_state, "documents", EmptyDict) IN
  Get(docs_state, "result", EmptyDict)

\* the keys of docs_state["result"] in insertion order
RecordedDocTypes ==
  SelectSeq(<<"brd", "srs">>, LAMBDA doc_type : doc_type \in DOMAIN RecordedDocuments)

\* AIBuilderOrchestrator.refine_with_feedback; calls counts the
\* refine_content calls it made
refine_with_feedback(world, fb, target_state, envs) ==
  Then(IF target_state = "documents"
         THEN RefineDocuments(world, RecordedDocTypes, RecordedDocuments,
                              1, fb, envs)
         ELSE Normal(world, 0),
       LAMBDA refined :
    IF refined.raised
      THEN [world |-> refined.world, calls |-> 0,
            returned |-> [status |-> "failed", error |-> refined.error]]
      ELSE [world |-> refined.world, calls |-> refined.value,
            returned |-> [status |-> "completed",
                          refined_state |-> target_state]])

\* ------------------------------------------------------------------------
\* The state after construction, and the parts of it an operation that is
\* not running leaves at rest
\* ------------------------------------------------------------------------

\* AIBuilderOrchestrator.__init__ with the default configuration; the
\* directories exist, nothing is written, indexed or logged yet
Constructed ==
  /\ config_version = "v1"
  /\ config_base_path = "./output"
  /\ version = config_version
  /\ output_base = [base_path |-> config_base_path, version |-> config_version]
  /\ build_state = EmptyDict
  /\ history_file = PyNone
  /\ disk = <<>>
  /\ index = <<>>
  /\ llm_calls = <<>>
  /\ faults = <<>>

DetailIdle ==
  /\ detail_pc = "idle"
  /\ detail_features = EmptyDict
  /\ detail_outcomes = <<>>
  /\ detail_returned = <<>>

ArtifactIdle ==
  /\ heap = <<>>
  /\ artifact_pc = "idle"
  /\ artifact_arg = None
  /\ artifact_feedback = <<>>
  /\ artifact_before = EmptyDict
  /\ artifact_returned = None

NothingCalled ==
  /\ callee = None
  /\ call_args = <<>>
  /\ call_returned = PyNone
  /\ call_earlier = PyNone

BuildIdle ==
  /\ pc = "idle"
  /\ build_requirements = <<>>
  /\ build_context = PyNone
  /\ detailed_flag = FALSE
  /\ build_result = PyNone
  /\ stage_runs = [name \in {StageNames[i] : i \in 1..Len(StageNames)} |-> 0]
  /\ refinement = PyNone
  /\ refiner_calls = 0

\* ------------------------------------------------------------------------
\* Inputs of the refiner checks
\* ------------------------------------------------------------------------

MaxFragments == 2
MaxRounds == 2

RECURSIVE Concat(_)
Concat(seqs) == IF seqs = <<>> THEN <<>> ELSE Head(seqs) \o Concat(Tail(seqs))

SeqsUpTo(S, n) == UNION {[1..k -> S] : k \in 0..n}

\* feedback texts are built from the twelve keywords, an upper-case keyword,
\* a blank and two ordinary words
FeedbackFragments ==
  StructuralKeywords \cup ClarityKeywords \cup CompletenessKeywords \cup
  { <<"U","N","C","L","E","A","R">>, <<" ">>, <<"o","k">>, <<"i","n","f","o">> }

FeedbackTexts == {Concat(fs) : fs \in SeqsUpTo(FeedbackFragments, MaxFragments)}

txt_plain == <<"a">>
txt_doc == <<"#"," ","T","\n","-"," ","x">>
txt_refined ==
  <<"#"," ","T","\n","#","#"," ","S","\n","-"," ","x","\n","-"," ","y">>

ContentSamples == {txt_plain, txt_doc}
RefinedSamples == {txt_refined, txt_plain}
RoundFeedbacks == {kw_add, kw_unclear, <<"o","k">>}

LLMOutcomes(texts) == {Returned(t) : t \in texts} \cup {Raised}

\* ------------------------------------------------------------------------
\* _analyze_feedback as an operation
\* ------------------------------------------------------------------------

FeedbackIdle == feedback = <<>> /\ strategy = None

RefineIdle ==
  /\ it_content = <<>>
  /\ feedback_list = <<>>
  /\ it_pc = "idle"
  /\ current_content = <<>>
  /\ refinement_history = <<>>
  /\ final_result = None
  /\ round_inputs = <<>>
  /\ round_results = <<>>

InitFeedback ==
  /\ Constructed
  /\ NothingCalled
  /\ BuildIdle
  /\ DetailIdle
  /\ ArtifactIdle
  /\ feedback \in FeedbackTexts
  /\ strategy = None
  /\ RefineIdle

AnalyzeFeedback ==
  /\ strategy = None
  /\ strategy' = _analyze_feedback(feedback)
  /\ UNCHANGED <<config_version, feedback, refine_vars, orchestrator_vars, call_vars,
                 world_vars, build_vars, detail_vars, artifact_vars>>

NextFeedback == AnalyzeFeedback

SpecFeedback == InitFeedback /\ [][NextFeedback]_vars

\* ------------------------------------------------------------------------
\* RefinerAgent.iterative_refinement, one action per round
\* ------------------------------------------------------------------------

InitRefine ==
  /\ Constructed
  /\ NothingCalled
  /\ BuildIdle
  /\ DetailIdle
  /\ ArtifactIdle
  /\ FeedbackIdle
  /\ it_content \in ContentSamples
  /\ feedback_list \in SeqsUpTo(RoundFeedbacks, MaxRounds)
  /\ it_pc = "loop"
  /\ current_content = it_content
  /\ refinement_history = <<>>
  /\ final_result = None
  /\ round_inputs = <<>>
  /\ round_results = <<>>

\* one iteration of "for i, feedback in enumerate(feedback_list, 1)"
RefinementRound ==
  /\ it_pc = "loop"
  /\ Len(refinement_history) < Len(feedback_list)
  /\ \E llm \in LLMOutcomes(RefinedSamples) :
       LET i  == Len(refinement_history) + 1
           fb == feedback_list[i]
           refinement_result == refine_content(current_content, fb, "document", llm)
       IN  /\ current_content' = NextRoundContent(refinement_result, current_content)
           /\ refinement_history' =
                Append(refinement_history, HistoryRecord(i, fb, refinement_result))
           /\ round_inputs' = Append(round_inputs, current_content)
           /\ round_results' = Append(round_results, refinement_result)
  /\ UNCHANGED <<config_version, feedback_vars, it_content, feedback_list, it_pc,
                 final_result, orchestrator_vars, call_vars, world_vars, build_vars,
                 detail_vars, artifact_vars>>

\* the loop is over: build final_result and return it
ReturnFinalResult ==
  /\ it_pc = "loop"
  /\ Len(refinement_history) = Len(feedback_list)
  /\ final_result' =
       [original_content      |-> it_content,
        final_refined_content |-> current_content,
        total_rounds          |-> Len(feedback_list),
        refinement_history    |-> refinement_history,
        metadata              |-> [agent |-> "Refiner",
                                   version |-> config_version,
                                   content_type |-> "document",
                                   iterative |-> TRUE]]
  /\ it_pc' = "returned"
  /\ UNCHANGED <<config_version, feedback_vars, it_content, feedback_list,
                 current_content, refinement_history, round_inputs, round_results,
                 orchestrator_vars, call_vars, world_vars, build_vars, detail_vars,
                 artifact_vars>>

NextRefine == RefinementRound \/ ReturnFinalResult

SpecRefine == InitRefine /\ [][NextRefine]_vars

\* ------------------------------------------------------------------------
\* build_project and refine_with_feedback: one action per stage
\* ------------------------------------------------------------------------

txt_requirements == <<"b","l","o","g">>
txt_analysis == <<"#"," ","G","o","a","l","\n","b","l","o","g">>
txt_bnm == <<"n","i","c","h","e">>
txt_architecture == <<"a","p","i"," ","l","a","y","e","r",":"," ","g","o">>
txt_features == <<"c","o","r","e","\n","-"," ","a","\n","-"," ","b">>
txt_detail == <<"#"," ","a","\n","s","p","e","c">>
txt_brd == <<"#"," ","B","R","D","\n","-"," ","x">>
txt_srs == <<"#"," ","S","R","S","\n","-"," ","y">>
txt_business_needs == <<"b","2","b">>
txt_market_context == <<"e","u">>

\* the environment fails at most MaxFaults operations during one behaviour
MaxFaults == 2

Requirements == {txt_requirements}

\* context: the default None, an empty dict, a dict with business needs
Contexts ==
  {PyNone, EmptyDict,
   [business_needs |-> txt_business_needs, market_context |-> txt_market_context]}

LogHows == {"ok", "write_fails", "mkdir_raises"}

B2N(b) == IF b THEN 1 ELSE 0

FaultBudget == MaxFaults - Len(faults)

\* the operations env lets fail
StageEnvFaults(env) ==
  B2N("llm" \in DOMAIN env /\ ~env.llm.ok)
    + B2N("bnm_llm" \in DOMAIN env /\ ~env.bnm_llm.ok)
    + B2N("brd_llm" \in DOMAIN env /\ ~env.brd_llm.ok)
    + B2N("srs_llm" \in DOMAIN env /\ ~env.srs_llm.ok)
    + B2N("save_ok" \in DOMAIN env /\ ~env.save_ok)
    + B2N("save_brd_ok" \in DOMAIN env /\ ~env.save_brd_ok)
    + B2N("save_srs_ok" \in DOMAIN env /\ ~env.save_srs_ok)
    + B2N("index_fail_at" \in DOMAIN env /\ env.index_fail_at /= 0)
    + B2N(env.log /= "ok")
    + (IF "details" \in DOMAIN env
         THEN Cardinality({i \in DOMAIN env.details : ~env.details[i].llm.ok})
              + Cardinality({i \in DOMAIN env.details : ~env.details[i].write_ok})
         ELSE 0)

\* env lets fail only operations the stage reached, within the budget
Met(env, out) ==
  Len(out.world.faults) = Len(faults) + StageEnvFaults(env)

TakeWorld(world) ==
  /\ history_file' = world.history_file
  /\ disk' = world.disk
  /\ index' = world.index
  /\ llm_calls' = world.llm_calls
  /\ faults' = world.faults

\* build_result["states"][name] = self._run_...(...); an exception leaving
\* the stage would leave build_project through its "except: raise"
Record(name, out, next_pc) ==
  /\ stage_runs' = [stage_runs EXCEPT ![name] = @ + 1]
  /\ IF IsException(out.state)
       THEN pc' = "raised" /\ build_result' = build_result
       ELSE /\ pc' = next_pc
            /\ build_result' =
                 [build_result EXCEPT !.states = Append(@, <<name, out.state>>)]
  /\ TakeWorld(out.world)
  /\ UNCHANGED <<detail_vars, artifact_vars>>
  /\ UNCHANGED <<config_version, feedback_vars, refine_vars, orchestrator_vars, call_vars,
                 build_requirements, build_context, detailed_flag, refinement,
                 refiner_calls>>

InitBuild ==
  /\ Constructed
  /\ NothingCalled
  /\ BuildIdle
  /\ DetailIdle
  /\ ArtifactIdle
  /\ FeedbackIdle
  /\ RefineIdle

\* build_project(requirements, context, generate_detailed_features) is
\* called and creates build_result
StartBuild ==
  /\ pc = "idle"
  /\ refinement = PyNone
  /\ \E a_requirements \in Requirements, a_context \in Contexts,
        generate_detailed \in BOOLEAN :
       /\ build_requirements' = a_requirements
       /\ build_context' = a_context
       /\ detailed_flag' = generate_detailed
       /\ build_result' = [requirements |-> a_requirements,
                           context      |-> OrEmptyDict(a_context),
                           states       |-> <<>>,
                           files        |-> <<>>,
                           version      |-> version]
  /\ pc' = "analysis"
  /\ UNCHANGED <<detail_vars, artifact_vars>>
  /\ UNCHANGED <<config_version, feedback_vars, refine_vars, orchestrator_vars, call_vars,
                 world_vars, stage_runs, refinement, refiner_calls>>

RunAnalysis ==
  /\ pc = "analysis"
  /\ \E env \in [llm : LLMOutcomes({txt_analysis}),
                 bnm_llm : LLMOutcomes({txt_bnm}),
                 save_ok : BOOLEAN, index_fail_at : 0..1, log : LogHows] :
       /\ StageEnvFaults(env) <= FaultBudget
       /\ \E out \in {_run_analysis(World, build_requirements, build_context, env)} :
              Met(env, out) /\ Record("analysis", out, "architecture")

RunArchitecture ==
  /\ pc = "architecture"
  /\ \E env \in [llm : LLMOutcomes({txt_architecture}),
                 save_ok : BOOLEAN, index_fail_at : 0..1, log : LogHows] :
       /\ StageEnvFaults(env) <= FaultBudget
       /\ \E out \in {_run_architecture(World, StateOf(build_result, "analysis"),
                                       env)} :
              Met(env, out) /\ Record("architecture", out, "features")

\* how many per-feature calls a features text leads to
FeatureCount(llm) ==
  IF llm.ok
    THEN Len(AllFeatures([feature_categories |->
                            _extract_feature_categories(llm.text)]))
    ELSE 0

RunFeaturePlanning ==
  /\ pc = "features"
  /\ \E llm \in LLMOutcomes({txt_features}) :
       \E env \in [llm : {llm},
                   details : [1..FeatureCount(llm) ->
                                [llm : LLMOutcomes({txt_detail}),
                                 write_ok : BOOLEAN]],
                   save_ok : BOOLEAN,
                   index_fail_at : 0..(FeatureCount(llm) + 1),
                   log : LogHows] :
         /\ StageEnvFaults(env) <= FaultBudget
         /\ \E out \in {_run_feature_planning(
                         World, StateOf(build_result, "analysis"),
                         StateOf(build_result, "architecture"),
                         detailed_flag, env)} :
                Met(env, out) /\ Record("features", out, "documents")

RunDocumentGeneration ==
  /\ pc = "documents"
  /\ \E env \in [brd_llm : LLMOutcomes({txt_brd}),
                 srs_llm : LLMOutcomes({txt_srs}),
                 save_brd_ok : BOOLEAN, save_srs_ok : BOOLEAN,
                 index_fail_at : 0..2, log : LogHows] :
       /\ StageEnvFaults(env) <= FaultBudget
       /\ \E out \in {_run_document_generation(
                       World, StateOf(build_result, "analysis"),
                       StateOf(build_result, "architecture"),
                       StateOf(build_result, "features"), env)} :
              Met(env, out) /\ Record("documents", out, "validation")

RunValidation ==
  /\ pc = "validation"
  /\ \E validation_result \in {validate_project_output(disk, output_base)} :
       \E env \in [save_ok : BOOLEAN, log : LogHows] :
         /\ StageEnvFaults(env) <= FaultBudget
         /\ \E out \in {_run_validation(World, validation_result, env)} :
                Met(env, out) /\ Record("validation", out, "final")

RunFinalReport ==
  /\ pc = "final"
  /\ \E env \in [save_ok : BOOLEAN, log : LogHows] :
       /\ StageEnvFaults(env) <= FaultBudget
       /\ \E out \in {_generate_final_report(World, build_result, env)} :
              Met(env, out) /\ Record("final", out, "complete")

\* the end of build_project: log "build_complete" and return build_result
FinishBuild ==
  /\ pc = "complete"
  /\ \E how \in LogHows :
       /\ B2N(how /= "ok") <= FaultBudget
       /\ \E logged \in {log_history(World, "build_complete", build_result.files,
                                     version, [duration |-> "duration"], how)} :
              /\ Len(logged.world.faults) = Len(faults) + B2N(how /= "ok")
              /\ pc' = IF logged.raised THEN "raised" ELSE "done"
              /\ TakeWorld(logged.world)
  /\ UNCHANGED <<detail_vars, artifact_vars>>
  /\ UNCHANGED <<config_version, feedback_vars, refine_vars, orchestrator_vars, call_vars,
                 build_requirements, build_context, detailed_flag, build_result,
                 stage_runs, refinement, refiner_calls>>

FeedbackSamples == {kw_add, kw_unclear}

RefineTargets == {"documents", "analysis", "architecture", "features"}

\* refine_with_feedback(feedback, target_state), before any build of this
\* process (the CLI's refine mode) or after one has returned
RefineWithFeedback ==
  /\ pc \in {"idle", "done"}
  /\ refinement = PyNone
  /\ \E fb \in FeedbackSamples, target_state \in RefineTargets :
       \E envs \in [1..Len(RecordedDocTypes) ->
                      [llm : LLMOutcomes(RefinedSamples), save_ok : BOOLEAN]] :
         \E out \in {refine_with_feedback(World, fb, target_state, envs)} :
         /\ Len(out.world.faults) <= MaxFaults
         /\ refinement' = [feedback |-> fb, target_state |-> target_state,
                           after_build |-> pc = "done",
                           returned |-> out.returned]
         /\ refiner_calls' = refiner_calls + out.calls
         /\ TakeWorld(out.world)
  /\ UNCHANGED <<detail_vars, artifact_vars>>
  /\ UNCHANGED <<config_version, feedback_vars, refine_vars, orchestrator_vars, call_vars,
                 pc, build_requirements, build_context, detailed_flag,
                 build_result, stage_runs>>

Next ==
  \/ StartBuild
  \/ RunAnalysis
  \/ RunArchitecture
  \/ RunFeaturePlanning
  \/ RunDocumentGeneration
  \/ RunValidation
  \/ RunFinalReport
  \/ FinishBuild
  \/ RefineWithFeedback

Spec == InitBuild /\ [][Next]_vars

\* build_project stands before one of its statements
BuildRunning ==
  pc \in {"analysis", "architecture", "features", "documents", "validation",
          "final", "complete"}

\* build_project leaves the statement it stands before: the program is
\* sequential and every statement of it (a stage or the closing log_history)
\* ends, by returning or by raising
BuildStep ==
  /\ BuildRunning
  /\ pc' \in {"architecture", "features", "documents", "validation", "final",
              "complete", "done", "raised"}
  /\ pc' /= pc

\* the pipeline with every started build running on
SpecTermination == InitBuild /\ [][Next]_vars /\ WF_pc(BuildStep)

\* ------------------------------------------------------------------------
\* C9
\* ------------------------------------------------------------------------

\* C9 as stated: every feedback text containing 'unclear' selects
\* clarity_optimization, whatever other keywords it contains.
C9_UnclearAlwaysWins ==
  (strategy /= None /\ Contains(feedback, kw_unclear))
    => strategy = "clarity_optimization"

\* C9 amended: a feedback text containing 'unclear' and no structural keyword
\* (structure, organize, format, section) selects clarity_optimization,
\* whatever completeness or other words it also contains.
C9_UnclearWinsUnlessStructural ==
  (/\ strategy /= None
   /\ Contains(feedback, kw_unclear)
   /\ ~AnyKeywordIn(StructuralKeywords, Lower(feedback)))
    => strategy = "clarity_optimization"

C9_Witness ==
  /\ strategy = "clarity_optimization"
  /\ Contains(feedback, kw_unclear)
  /\ AnyKeywordIn(CompletenessKeywords, Lower(feedback))

\* ------------------------------------------------------------------------
\* C10
\* ------------------------------------------------------------------------

RoundsDone == Len(refinement_history)

\* round i+1 receives what round i returned, round 1 the original
ContentIsThreaded ==
  /\ Len(round_inputs) = RoundsDone
  /\ Len(round_results) = RoundsDone
  /\ \A i \in 1..RoundsDone :
       round_inputs[i] =
         IF i = 1 THEN it_content ELSE round_results[i - 1].refined_content

\* the returned result: final content, round count and history length
ResultIsLastRound ==
  it_pc = "returned" =>
    LET n == Len(feedback_list) IN
    /\ final_result.final_refined_content =
         IF n = 0 THEN it_content ELSE round_results[n].refined_content
    /\ final_result.total_rounds = n
    /\ Len(final_result.refinement_history) = n
    /\ final_result.refinement_history = refinement_history

\* record i: round index, feedback and improvements of round i
RecordCarriesRound(i) ==
  /\ refinement_history[i].round = i
  /\ refinement_history[i].feedback = feedback_list[i]
  /\ refinement_history[i].improvements =
       _identify_improvements(round_inputs[i], round_results[i].refined_content)

RoundFailed(i) == "error" \in DOMAIN round_results[i]

\* C10 as stated: content is threaded through the rounds, the result is the
\* last round's output with total_rounds = n, and record i carries round
\* index i, feedback fi, the strategy chosen for fi and round i's improvements.
C10_ThreadsWithStrategy ==
  /\ ContentIsThreaded
  /\ ResultIsLastRound
  /\ \A i \in 1..RoundsDone :
       /\ RecordCarriesRound(i)
       /\ refinement_history[i].strategy = _analyze_feedback(feedback_list[i])

\* C10 amended: as stated, except that the record of a round whose completion
\* call raised carries strategy None instead of the strategy chosen for fi.
C10_ThreadsWithStrategyOfSucceededRounds ==
  /\ ContentIsThreaded
  /\ ResultIsLastRound
  /\ \A i \in 1..RoundsDone :
       /\ RecordCarriesRound(i)
       /\ refinement_history[i].strategy =
            IF RoundFailed(i) THEN None ELSE _analyze_feedback(feedback_list[i])

C10_Witness ==
  /\ it_pc = "returned"
  /\ Len(feedback_list) = 2
  /\ ~RoundFailed(1)
  /\ round_results[1].refined_content /= it_content
  /\ round_inputs[2] = round_results[1].refined_content
  /\ RoundFailed(2)
  /\ refinement_history[1].improvements /= <<>>

\* ------------------------------------------------------------------------
\* generate_detailed_features as an operation (specification SpecDetail)
\* ------------------------------------------------------------------------

MaxFeatures == 3

FeatureNames == { <<"a">>, <<"b">>, <<"A"," ","b">>, <<"A">> }

\* feature plans as plan_features hands them over: the extracted feature
\* strings by category
FeaturePlans ==
  { [feature_categories |-> [core |-> core, enhanced |-> enhanced,
                             optional |-> <<>>]] :
      core \in SeqsUpTo(FeatureNames, MaxFeatures),
      enhanced \in SeqsUpTo({<<"c">>}, 1) }

\* how the completion call and the file write for one feature end
DetailOutcomes ==
  { [llm |-> Returned(txt_detail), write_ok |-> TRUE],
    [llm |-> Returned(txt_detail), write_ok |-> FALSE],
    [llm |-> Raised, write_ok |-> TRUE] }

InitDetail ==
  /\ Constructed
  /\ NothingCalled
  /\ BuildIdle
  /\ ArtifactIdle
  /\ FeedbackIdle
  /\ RefineIdle
  /\ detail_pc = "idle"
  /\ detail_returned = <<>>
  /\ detail_features \in FeaturePlans
  /\ Len(AllFeatures(detail_features)) <= MaxFeatures
  /\ detail_outcomes \in [1..Len(AllFeatures(detail_features)) -> DetailOutcomes]

\* feature_planner.generate_detailed_features(features, output_dir)
GenerateDetailedFeatures ==
  /\ detail_pc = "idle"
  /\ \E out \in {generate_detailed_features(World, detail_features,
                                            OutputDir(output_base, 3),
                                            detail_outcomes)} :
       /\ detail_returned' = out.value
       /\ TakeWorld(out.world)
  /\ detail_pc' = "returned"
  /\ UNCHANGED <<detail_features, detail_outcomes>>
  /\ UNCHANGED <<config_version, feedback_vars, refine_vars, orchestrator_vars, call_vars,
                 build_vars, artifact_vars>>

NextDetail == GenerateDetailedFeatures

SpecDetail == InitDetail /\ [][NextDetail]_vars

\* ------------------------------------------------------------------------
\* The agents' refine operations on an artifact held by the caller
\* (specification SpecArtifactRefine).  A dict is an object on the heap;
\* an artifact's 'metadata' item is a reference to a second dict, and
\* dict.copy() makes a new dict whose items are the same references.
\* ------------------------------------------------------------------------

Ref(address) == [ref |-> address]

\* the value of the artifact at address, its metadata read through
ValueAt(a_heap, address) ==
  LET artifact == a_heap[address] IN
  [k \in DOMAIN artifact |->
     IF k = "metadata" THEN a_heap[artifact[k].ref] ELSE artifact[k]]

\* analysis.copy()
ShallowCopy(a_heap, address) == Append(a_heap, a_heap[address])

\* d[key] = value on the dict at address
SetItem(a_heap, address, key, value) ==
  [a_heap EXCEPT ![address] = DictSet(@, key, value)]

\* refined['metadata']['refined'] = True; refined['metadata']['feedback'] = fb
SetMetadata(a_heap, address, fb) ==
  LET metadata == a_heap[address].metadata.ref IN
  SetItem(SetItem(a_heap, metadata, "refined", TRUE), metadata, "feedback", fb)

RefineReturns(world, a_heap, address) ==
  [world |-> world, heap |-> a_heap, returned |-> address]

refine_prompt(name, original, fb) ==
  [name |-> name, original |-> original, feedback |-> fb]

\* AnalyzerAgent.refine_analysis
refine_analysis(world, a_heap, analysis, fb, llm) ==
  LET called == Completed(world,
                          refine_prompt("refine_analysis",
                                        Get(a_heap[analysis], "analysis_content", <<>>),
                                        fb), llm)
      refined_analysis == Len(a_heap) + 1
      copied  == ShallowCopy(a_heap, analysis)
      content == SetItem(copied, refined_analysis, "analysis_content", llm.text)
  IN  IF ~llm.ok THEN RefineReturns(called, a_heap, analysis)
      ELSE IF "metadata" \notin DOMAIN content[refined_analysis]
        THEN RefineReturns(called, content, analysis)
        ELSE RefineReturns(
               called,
               SetItem(SetMetadata(content, refined_analysis, fb),
                       refined_analysis, "sections",
                       _extract_sections(llm.text)),
               refined_analysis)

\* ArchitectAgent.refine_architecture
refine_architecture(world, a_heap, architecture, fb, llm) ==
  LET called == Completed(world,
                          refine_prompt("refine_architecture",
                                        Get(a_heap[architecture],
                                            "architecture_content", <<>>),
                                        fb), llm)
      refined_architecture == Len(a_heap) + 1
      copied  == ShallowCopy(a_heap, architecture)
      content == SetItem(copied, refined_architecture,
                         "architecture_content", llm.text)
  IN  IF ~llm.ok THEN RefineReturns(called, a_heap, architecture)
      ELSE IF "metadata" \notin DOMAIN content[refined_architecture]
        THEN RefineReturns(called, content, architecture)
        ELSE RefineReturns(
               called,
               SetItem(SetItem(SetMetadata(content, refined_architecture, fb),
                               refined_architecture, "components",
                               _extract_components(llm.text)),
                       refined_architecture, "technology_stack",
                       _extract_technology_stack(llm.text)),
               refined_architecture)

\* FeaturePlannerAgent.refine_features
refine_features(world, a_heap, features, fb, llm) ==
  LET called == Completed(world,
                          refine_prompt("refine_features",
                                        Get(a_heap[features], "features_content", <<>>),
                                        fb), llm)
      refined_features == Len(a_heap) + 1
      copied  == ShallowCopy(a_heap, features)
      content == SetItem(copied, refined_features, "features_content", llm.text)
  IN  IF ~llm.ok THEN RefineReturns(called, a_heap, features)
      ELSE IF "metadata" \notin DOMAIN content[refined_features]
        THEN RefineReturns(called, content, features)
        ELSE RefineReturns(
               called,
               SetItem(SetItem(SetMetadata(content, refined_features, fb),
                               refined_features, "feature_categories",
                               _extract_feature_categories(llm.text)),
                       refined_features, "timeline",
                       _extract_timeline(llm.text)),
               refined_features)

\* a refine_document that leaves the requirement lists as they were
refine_document_keeping_requirements(world, a_heap, document, fb, llm) ==
  LET called == Completed(world,
                          [name |-> "refine_document",
                           doc_type |-> Upper(Chars(Get(a_heap[document],
                                                        "document_type",
                                                        "document"))),
                           original |-> Get(a_heap[document], "content", <<>>),
                           feedback |-> fb], llm)
      refined_document == Len(a_heap) + 1
      content == SetItem(ShallowCopy(a_heap, document), refined_document,
                         "content", llm.text)
  IN  IF ~llm.ok THEN RefineReturns(called, a_heap, document)
      ELSE IF "metadata" \notin DOMAIN content[refined_document]
        THEN RefineReturns(called, content, document)
        ELSE RefineReturns(
               called,
               SetItem(SetMetadata(content, refined_document, fb),
                       refined_document, "sections",
                       _extract_document_sections(llm.text)),
               refined_document)

\* DocumentWriterAgent.refine_document
refine_document(world, a_heap, document, fb, llm) ==
  LET doc_type == Get(a_heap[document], "document_type", "document")
      called == Completed(world,
                          [name |-> "refine_document",
                           doc_type |-> Upper(Chars(doc_type)),
                           original |-> Get(a_heap[document], "content", <<>>),
                           feedback |-> fb], llm)
      refined_document == Len(a_heap) + 1
      copied  == ShallowCopy(a_heap, document)
      content == SetItem(copied, refined_document, "content", llm.text)
  IN  IF ~llm.ok THEN RefineReturns(called, a_heap, document)
      ELSE IF "metadata" \notin DOMAIN content[refined_document]
        THEN RefineReturns(called, content, document)
        ELSE
          LET sections == SetItem(SetMetadata(content, refined_document, fb),
                                  refined_document, "sections",
                                  _extract_document_sections(llm.text))
          IN  RefineReturns(
                called,
                IF doc_type = "brd"
                  THEN SetItem(sections, refined_document, "requirements",
                               _extract_requirements(llm.text))
                ELSE IF doc_type = "srs"
                  THEN SetItem(sections, refined_document,
                               "technical_requirements",
                               _extract_technical_requirements(llm.text))
                  ELSE sections,
                refined_document)

\* the artifacts the generation operations return, and dicts of the same
\* shape that carry no metadata
GeneratedArtifacts ==
  Then(analyze_requirements(txt_requirements, EmptyDict,
                            Returned(txt_analysis)),
       LAMBDA analysis :
  Then(design_architecture(analysis, Returned(txt_architecture)),
       LAMBDA architecture :
  Then(plan_features(World, analysis, architecture, FALSE, PyNone,
                     Returned(txt_features), <<>>).value,
       LAMBDA features :
    { analysis,
      analyze_requirements(txt_requirements, EmptyDict, Raised),
      architecture,
      features,
      generate_brd(analysis, features, Returned(txt_brd)),
      generate_srs(analysis, architecture, features, Returned(txt_srs)),
      generate_srs(analysis, architecture, features, Raised),
      [analysis_content |-> txt_analysis],
      [content |-> txt_brd] })))

\* the caller's artifact on the heap: its metadata dict first, then the
\* artifact holding the reference to it
Allocate(artifact) ==
  IF "metadata" \in DOMAIN artifact
    THEN << artifact.metadata, [artifact EXCEPT !.metadata = Ref(1)] >>
    ELSE << artifact >>

InitArtifactRefine ==
  /\ Constructed
  /\ NothingCalled
  /\ BuildIdle
  /\ DetailIdle
  /\ FeedbackIdle
  /\ RefineIdle
  /\ artifact_pc = "idle"
  /\ artifact_returned = None
  /\ \E artifact \in GeneratedArtifacts :
       /\ heap = Allocate(artifact)
       /\ artifact_arg = Len(Allocate(artifact))
       /\ artifact_before = artifact
  /\ artifact_feedback \in FeedbackSamples

\* a refined text every extractor finds something in
txt_rich ==
  <<"#"," ","R","e","q","u","i","r","e","m","e","n","t","s","\n","s","y",
    "s","t","e","m"," ","l","a","y","e","r",":"," ","p","y","t","h","o","n",
    "\n","-"," ","u","s","e","r"," ","c","a","n"," ","s","i","g","n"," ",
    "i","n","\n","c","o","r","e","\n","-"," ","c","h","a","t","\n","p","h",
    "a","s","e"," ","1",":"," ","m","v","p">>

RefineTexts == {txt_refined, txt_doc, txt_rich}

\* the call ends: the heap it leaves and the reference it returned
Refined(out, operation) ==
  /\ heap' = out.heap
  /\ artifact_returned' = out.returned
  /\ artifact_pc' = operation
  /\ TakeWorld(out.world)
  /\ UNCHANGED <<artifact_arg, artifact_feedback, artifact_before>>
  /\ UNCHANGED <<config_version, feedback_vars, refine_vars, orchestrator_vars, call_vars,
                 build_vars, detail_vars>>

RefineAnalysis ==
  /\ artifact_pc = "idle"
  /\ \E llm \in LLMOutcomes(RefineTexts) :
       \E out \in {refine_analysis(World, heap, artifact_arg,
                                   artifact_feedback, llm)} :
         Refined(out, "refine_analysis")

RefineArchitecture ==
  /\ artifact_pc = "idle"
  /\ \E llm \in LLMOutcomes(RefineTexts) :
       \E out \in {refine_architecture(World, heap, artifact_arg,
                                       artifact_feedback, llm)} :
         Refined(out, "refine_architecture")

RefineFeatures ==
  /\ artifact_pc = "idle"
  /\ \E llm \in LLMOutcomes(RefineTexts) :
       \E out \in {refine_features(World, heap, artifact_arg,
                                   artifact_feedback, llm)} :
         Refined(out, "refine_features")

RefineDocument ==
  /\ artifact_pc = "idle"
  /\ \E llm \in LLMOutcomes(RefineTexts) :
       \E out \in {refine_document(World, heap, artifact_arg,
                                   artifact_feedback, llm)} :
         Refined(out, "refine_document")

NextArtifactRefine ==
  \/ RefineAnalysis
  \/ RefineArchitecture
  \/ RefineFeatures
  \/ RefineDocument

SpecArtifactRefine == InitArtifactRefine /\ [][NextArtifactRefine]_vars

\* ------------------------------------------------------------------------
\* validator.validate_document applied on its own (specification SpecValidate)
\* ------------------------------------------------------------------------

MaxDocFragments == 2

frag_summary == << <<"#"," ","E","x","e","c","u","t","i","v","e"," ","S","u","m","m","a",
    "r","y">> >>

frag_objectives ==
  << <<"b","u","s","i","n","e","s","s"," ","o","b","j","e","c","t","i","v",
    "e","s">>,
     <<"f","u","n","c","t","i","o","n","a","l"," ","r","e","q","u","i","r",
    "e","m","e","n","t","s">>,
     <<"N","o","n","-","f","u","n","c","t","i","o","n","a","l"," ","R","e",
    "q","u","i","r","e","m","e","n","t","s">>,
     <<"s","c","o","p","e">> >>

frag_overview == << <<"#","#","#"," ","S","y","s","t","e","m"," ","O","v","e","r","v","i",
    "e","w">> >>

frag_specifications ==
  << <<"f","u","n","c","t","i","o","n","a","l"," ","s","p","e","c","i","f",
    "i","c","a","t","i","o","n","s"," ","t","e","c","h","n","i","c","a",
    "l"," ","r","e","q","u","i","r","e","m","e","n","t","s">>,
     <<"I","n","t","e","r","f","a","c","e"," ","R","e","q","u","i","r","e",
    "m","e","n","t","s">> >>

frag_blank == << <<>> >>

\* one line longer than the validator's line limit
frag_long == << [i \in 1..(LongLineLen + 1) |-> "x"] >>

DocFragments ==
  {frag_summary, frag_objectives, frag_overview, frag_specifications,
   frag_blank, frag_long}

RECURSIVE Flatten(_)
Flatten(seqs) == IF seqs = <<>> THEN <<>> ELSE Head(seqs) \o Flatten(Tail(seqs))

\* the document texts made of at most n fragments, one line below the other
DocumentsOf(n) ==
  {JoinLines(Flatten(fragments)) :
     fragments \in UNION {[1..k -> DocFragments] : k \in 0..n}}

\* doc_type is any string; "text" stands for those the validator has no
\* rules for
DocTypes == {"markdown", "brd", "srs", "text"}

ValidateArguments ==
  {[content |-> content, doc_type |-> doc_type] :
     content \in DocumentsOf(MaxDocFragments), doc_type \in DocTypes}

\* the arguments of the second of two calls
LaterValidateArguments ==
  {[content |-> content, doc_type |-> doc_type] :
     content \in DocumentsOf(1), doc_type \in DocTypes}

InitValidate ==
  /\ Constructed
  /\ BuildIdle
  /\ DetailIdle
  /\ ArtifactIdle
  /\ FeedbackIdle
  /\ RefineIdle
  /\ callee = None
  /\ call_args \in ValidateArguments
  /\ call_returned = PyNone
  /\ call_earlier = PyNone

\* validator.validate_document(content, doc_type)
ValidateDocument ==
  /\ callee = None
  /\ callee' = "validate_document"
  /\ call_returned' = validate_document(call_args.content, call_args.doc_type)
  /\ UNCHANGED <<call_args, call_earlier>>
  /\ UNCHANGED <<config_version, feedback_vars, refine_vars, orchestrator_vars,
                 world_vars, build_vars, detail_vars, artifact_vars>>

\* a second validate_document call, of another document
ValidateAnotherDocument ==
  /\ callee = "validate_document"
  /\ call_earlier = PyNone
  /\ \E args \in LaterValidateArguments :
       /\ call_args' = args
       /\ call_returned' = validate_document(args.content, args.doc_type)
  /\ call_earlier' = [args |-> call_args, returned |-> call_returned]
  /\ UNCHANGED callee
  /\ UNCHANGED <<config_version, feedback_vars, refine_vars, orchestrator_vars,
                 world_vars, build_vars, detail_vars, artifact_vars>>

NextValidate == ValidateDocument \/ ValidateAnotherDocument

SpecValidate == InitValidate /\ [][NextValidate]_vars

\* ------------------------------------------------------------------------

\* validator.validate_project_output applied to a directory of files
\* (specification SpecValidateOutput)
\* ------------------------------------------------------------------------

MaxOutputFiles == 3

name_BRD_md == <<"B","R","D",".","m","d">>
name_srs_v2_md == <<"s","r","s","_","v","2",".","m","d">>
name_notes_md == <<"n","o","t","e","s",".","m","d">>
name_brd_srs_md == <<"b","r","d","_","s","r","s",".","m","d">>
name_brd_txt == <<"b","r","d",".","t","x","t">>

\* a complete BRD, a text with a heading and no mandatory title, a blank text
text_brd == JoinLines(frag_summary \o frag_objectives)
text_untitled == JoinLines(frag_overview \o frag_objectives)
text_blank == JoinLines(frag_blank)

OutputTexts == {text_brd, text_untitled, text_blank}

\* places below self.output_base, in a directory of their own, and one
\* below the output directory of another version
OutputPaths ==
  {FilePath(OutputDir(output_base, 4), name) :
     name \in {name_BRD_md, name_srs_v2_md, name_notes_md, name_brd_srs_md,
               name_brd_txt}}
  \cup {FilePath(SubDir(OutputDir(output_base, 3), "features"), name_BRD_md),
        FilePath(OutputDir([output_base EXCEPT !.version = "v2"], 4),
                 name_notes_md)}

InitValidateOutput ==
  /\ Constructed
  /\ NothingCalled
  /\ BuildIdle
  /\ DetailIdle
  /\ ArtifactIdle
  /\ FeedbackIdle
  /\ RefineIdle

\* with open(file_path, 'w') as f: f.write(content), by a stage or by hand,
\* before the directory is validated
WriteOutputFile ==
  /\ callee = None
  /\ Cardinality(DOMAIN disk) < MaxOutputFiles
  /\ \E path \in OutputPaths \ DOMAIN disk, content \in OutputTexts :
       disk' = DictSet(disk, path, FileOf("generate_detailed_features", content))
  /\ UNCHANGED <<history_file, index, llm_calls, faults>>
  /\ UNCHANGED <<config_version, feedback_vars, refine_vars, orchestrator_vars,
                 call_vars, build_vars, detail_vars, artifact_vars>>

\* validator.validate_project_output(self.output_base)
ValidateProjectOutput ==
  /\ callee = None
  /\ callee' = "validate_project_output"
  /\ call_args' = [output_dir |-> output_base]
  /\ call_returned' = validate_project_output(disk, output_base)
  /\ UNCHANGED call_earlier
  /\ UNCHANGED <<config_version, feedback_vars, refine_vars, orchestrator_vars,
                 world_vars, build_vars, detail_vars, artifact_vars>>

NextValidateOutput == WriteOutputFile \/ ValidateProjectOutput

SpecValidateOutput == InitValidateOutput /\ [][NextValidateOutput]_vars

\* ------------------------------------------------------------------------

\* _extract_sections and _extract_document_sections applied on their own
\* (specification SpecExtract)
\* ------------------------------------------------------------------------

MaxSections == 2
MaxTextLines == 3

SectionTitles == { <<"A">>, <<"B"," ","b">>, <<" ","A">>, <<"#","x">>, <<>> }

SectionBodies ==
  { <<>>, <<"t">>, <<"t","\n","u">>, <<"t","\n","\n","u">>, <<" ","t"," ">>, <<"t","\n","#","#"," ","B"," ","b","\n","u">> }

\* the ordered mappings of at most n titles to bodies, as key-value pairs
MappingsOf(n) ==
  {pairs \in UNION {[1..k -> SectionTitles \X SectionBodies] : k \in 0..n} :
     \A i, j \in 1..Len(pairs) : pairs[i][1] = pairs[j][1] => i = j}

\* a mapping as text: per title a heading line, then the lines of its body
Serialise(pairs) ==
  JoinLines(Flatten([i \in 1..Len(pairs) |->
                       << <<"#", " ">> \o pairs[i][1], pairs[i][2] >>]))

TextLines == { <<>>, <<"t","e","x","t">>, <<"a"," ","#"," ","b">>, <<"-"," ","i","t","e","m">>, <<" "," ">>, <<" ","#","#"," ","A">> }

TextsOf(n) ==
  {JoinLines(lines) : lines \in UNION {[1..k -> TextLines] : k \in 0..n}}

ExtractArguments ==
  {[of_mapping |-> TRUE, mapping |-> pairs, content |-> Serialise(pairs)] :
     pairs \in MappingsOf(MaxSections)}
  \cup {[of_mapping |-> FALSE, mapping |-> <<>>, content |-> content] :
          content \in TextsOf(MaxTextLines)}

InitExtract ==
  /\ Constructed
  /\ BuildIdle
  /\ DetailIdle
  /\ ArtifactIdle
  /\ FeedbackIdle
  /\ RefineIdle
  /\ callee = None
  /\ call_args \in ExtractArguments
  /\ call_returned = PyNone
  /\ call_earlier = PyNone

\* analyzer._extract_sections(content)
ExtractSections ==
  /\ callee = None
  /\ callee' = "_extract_sections"
  /\ call_returned' = _extract_sections(call_args.content)
  /\ UNCHANGED <<call_args, call_earlier>>
  /\ UNCHANGED <<config_version, feedback_vars, refine_vars, orchestrator_vars,
                 world_vars, build_vars, detail_vars, artifact_vars>>

\* document_writer._extract_document_sections(content)
ExtractDocumentSections ==
  /\ callee = None
  /\ callee' = "_extract_document_sections"
  /\ call_returned' = _extract_document_sections(call_args.content)
  /\ UNCHANGED <<call_args, call_earlier>>
  /\ UNCHANGED <<config_version, feedback_vars, refine_vars, orchestrator_vars,
                 world_vars, build_vars, detail_vars, artifact_vars>>

\* the same function applied to the text of the mapping it returned
ExtractSerialised ==
  /\ callee \in {"_extract_sections", "_extract_document_sections"}
  /\ call_earlier = PyNone
  /\ call_earlier' = [args |-> call_args, returned |-> call_returned]
  /\ call_args' = [of_mapping |-> TRUE, mapping |-> call_returned,
                   content |-> Serialise(call_returned)]
  /\ call_returned' =
       IF callee = "_extract_sections"
         THEN _extract_sections(Serialise(call_returned))
         ELSE _extract_document_sections(Serialise(call_returned))
  /\ UNCHANGED callee
  /\ UNCHANGED <<config_version, feedback_vars, refine_vars, orchestrator_vars,
                 world_vars, build_vars, detail_vars, artifact_vars>>

NextExtract == ExtractSections \/ ExtractDocumentSections \/ ExtractSerialised

SpecExtract == InitExtract /\ [][NextExtract]_vars

\* ------------------------------------------------------------------------

\* The file name generate_detailed_features derives from a feature string
\* (specification SpecSafeName)
\* ------------------------------------------------------------------------

MaxFeatureLen == 4

FeatureChars == {"a", "B", "1", "_", " ", "/", ".", "\\"}

\* the feature strings of at most n characters
FeaturesOf(n) == UNION {[1..k -> FeatureChars] : k \in 0..n}

\* feature strings around the length limit of the file name
LongFeatures ==
  {[i \in 1..k |-> "a"] \o tail :
     k \in {SafeNameMaxLen - 1, SafeNameMaxLen},
     tail \in {<<>>, <<"b">>, <<" ", "b">>, <<"/", ".", "b">>}}

InitSafeName ==
  /\ Constructed
  /\ BuildIdle
  /\ DetailIdle
  /\ ArtifactIdle
  /\ FeedbackIdle
  /\ RefineIdle
  /\ callee = None
  /\ call_args \in {[feature |-> feature] :
                      feature \in FeaturesOf(MaxFeatureLen) \cup LongFeatures}
  /\ call_returned = PyNone
  /\ call_earlier = PyNone

\* safe_name = ''.join(...).strip('_')[:50] for one feature of the loop
DeriveSafeName ==
  /\ callee = None
  /\ callee' = "safe_name"
  /\ call_returned' = safe_name(call_args.feature)
  /\ UNCHANGED <<call_args, call_earlier>>
  /\ UNCHANGED <<config_version, feedback_vars, refine_vars, orchestrator_vars,
                 world_vars, build_vars, detail_vars, artifact_vars>>

NextSafeName == DeriveSafeName

SpecSafeName == InitSafeName /\ [][NextSafeName]_vars

\* ------------------------------------------------------------------------

\* The list extractors applied to texts: _extract_requirements,
\* _extract_technical_requirements (src/agents/document_writer.py) and
\* _extract_feature_categories (src/agents/feature_planner.py)
\* (specification SpecLists)
\* ------------------------------------------------------------------------

MaxListLines == 3

\* a list item text of n characters
Filler(n) == AsTuple([i \in 1..n |-> "x"])

bullet == <<"-", " ">>

\* headings with and without a keyword, body lines with a keyword, list
\* lines with texts around the length limits, with a keyword, indented and
\* empty
ListLines ==
  { <<"#"," ","R","e","q","u","i","r","e","m","e","n","t","s">>, <<"#"," ","I","n","t","r","o">>, <<"#"," ","S","y","s","t","e","m">>, <<"f","u","n","c","t","i","o","n","a","l"," ","n","o","t","e","s">>,
    <<"t","e","x","t">>, <<"C","o","r","e">>, <<"M","u","s","t","-","h","a","v","e",","," ","o","p","t","i","o","n",
    "a","l">>, <<"F","u","t","u","r","e">>,
    <<" ","-"," ","a">>, <<"-">>, <<"2","."," ","e","n","h","a","n","c","e","d"," ","b">>, <<"1","."," ">> \o Filler(RequirementMinLen + 1),
    bullet \o Filler(RequirementMinLen - 1), bullet \o Filler(RequirementMinLen),
    bullet \o Filler(FeatureMaxLen - 1), bullet \o Filler(FeatureMaxLen) }

ListTexts ==
  {JoinLines(lines) : lines \in UNION {[1..k -> ListLines] : k \in 0..MaxListLines}}

InitLists ==
  /\ Constructed
  /\ BuildIdle
  /\ DetailIdle
  /\ ArtifactIdle
  /\ FeedbackIdle
  /\ RefineIdle
  /\ callee = None
  /\ call_args \in {[content |-> content] : content \in ListTexts}
  /\ call_returned = PyNone
  /\ call_earlier = PyNone

\* document_writer._extract_requirements(content)
ExtractRequirements ==
  /\ callee = None
  /\ callee' = "_extract_requirements"
  /\ call_returned' = _extract_requirements(call_args.content)
  /\ UNCHANGED <<call_args, call_earlier>>
  /\ UNCHANGED <<config_version, feedback_vars, refine_vars, orchestrator_vars,
                 world_vars, build_vars, detail_vars, artifact_vars>>

\* document_writer._extract_technical_requirements(content)
ExtractTechnicalRequirements ==
  /\ callee = None
  /\ callee' = "_extract_technical_requirements"
  /\ call_returned' = _extract_technical_requirements(call_args.content)
  /\ UNCHANGED <<call_args, call_earlier>>
  /\ UNCHANGED <<config_version, feedback_vars, refine_vars, orchestrator_vars,
                 world_vars, build_vars, detail_vars, artifact_vars>>

\* feature_planner._extract_feature_categories(content)
ExtractFeatureCategories ==
  /\ callee = None
  /\ callee' = "_extract_feature_categories"
  /\ call_returned' = _extract_feature_categories(call_args.content)
  /\ UNCHANGED <<call_args, call_earlier>>
  /\ UNCHANGED <<config_version, feedback_vars, refine_vars, orchestrator_vars,
                 world_vars, build_vars, detail_vars, artifact_vars>>

NextLists ==
  \/ ExtractRequirements
  \/ ExtractTechnicalRequirements
  \/ ExtractFeatureCategories

SpecLists == InitLists /\ [][NextLists]_vars

\* ------------------------------------------------------------------------

\* The command line (src/main.py): main sets up the output structure, runs
\* one build or one refinement and exits
\* ------------------------------------------------------------------------

\* --output-dir as given on the command line
dir_out == "out"

\* str(Path(output_dir).resolve()): the path made absolute from the
\* working directory
Resolve(output_dir) == IF output_dir = dir_out THEN "/cwd/out" ELSE output_dir

\* the parsed arguments: --version, --output-dir (None when absent),
\* --context (given or not), --refine with --feedback (both given or not),
\* --detailed-features
MainArguments ==
  [version : {"v1", "v2"}, output_dir : {None, dir_out},
   context : BOOLEAN, refine : BOOLEAN, detailed_features : BOOLEAN]

\* validate_output_directory: (True, resolved path) or (False, str(e))
validate_output_directory(world, output_dir, ok) ==
  IF ok
    THEN Normal(world, <<TRUE, Resolve(output_dir)>>)
    ELSE Normal(Fault(world, "output_directory"), <<FALSE, "OSError">>)

\* a setup that logs the failure and goes on
_setup_output_structure_swallowing(world, ok) ==
  IF ok THEN Normal(world, None) ELSE Normal(Fault(world, "directory"), None)

\* AIBuilderOrchestrator._setup_output_structure: os.makedirs of the base
\* directory, the six state directories and logs; a failure is logged and
\* raised again
_setup_output_structure(world, ok) ==
  IF ok THEN Normal(world, None)
  ELSE Thrown(Fault(world, "directory"), "OSError")

\* config.get_output_path()
get_output_path(base_path, a_version) ==
  [base_path |-> base_path, version |-> a_version]

\* the line "from orchestrator import orchestrator" constructs the
\* orchestrator; its _setup_output_structure raises, the import fails and
\* the interpreter exits with 1 before main is entered
ConstructionRaises ==
  /\ callee = None
  /\ pc = "idle"
  /\ callee' = "__init__"
  /\ \E made \in {_setup_output_structure(World, FALSE)} :
       /\ made.raised
       /\ TakeWorld(made.world)
  /\ call_returned' = [exit_code |-> 1]
  /\ UNCHANGED <<call_args, call_earlier>>
  /\ UNCHANGED <<config_version, feedback_vars, refine_vars, orchestrator_vars,
                 build_vars, detail_vars, artifact_vars>>

\* main up to the call of the orchestrator (main.py 73-116): the version
\* goes into the configuration; a custom output directory is validated,
\* goes into the configuration and refresh_output_paths takes version and
\* output base from the configuration and sets the structure up; without
\* one, _setup_output_structure runs on the paths of the construction
MainSetup ==
  /\ callee = None
  /\ pc = "idle"
  /\ \E args \in MainArguments, dir_ok \in BOOLEAN, setup_ok \in BOOLEAN :
     \E new_version \in {IF args.version /= "v1" THEN args.version
                         ELSE config_version} :
     \E validated \in {IF args.output_dir /= None
                         THEN validate_output_directory(World, args.output_dir,
                                                        dir_ok)
                         ELSE Normal(World, <<TRUE, config_base_path>>)} :
       /\ args.output_dir = None => dir_ok
       /\ ~dir_ok => setup_ok
       /\ callee' = "main"
       /\ call_args' = args
       /\ config_version' = new_version
       /\ IF ~validated.value[1]
            THEN /\ call_returned' = [exit_code |-> 1]
                 /\ TakeWorld(validated.world)
                 /\ UNCHANGED <<config_base_path, version, output_base>>
            ELSE /\ config_base_path' = validated.value[2]
                 /\ IF args.output_dir /= None
                      THEN /\ version' = new_version
                           /\ output_base' = get_output_path(validated.value[2],
                                                             new_version)
                      ELSE UNCHANGED <<version, output_base>>
                 /\ \E made \in {_setup_output_structure(validated.world,
                                                         setup_ok)} :
                      /\ TakeWorld(made.world)
                      /\ call_returned' = IF made.raised
                                            THEN [exit_code |-> 1] ELSE PyNone
  /\ UNCHANGED <<call_earlier, build_state>>
  /\ UNCHANGED <<feedback_vars, refine_vars, build_vars, detail_vars,
                 artifact_vars>>

\* main is past its setup and has not exited
MainRuns == callee = "main" /\ call_returned = PyNone

\* orchestrator.build_project(requirements, context,
\* generate_detailed_features=args.detailed_features); context is {} unless
\* --context is given
MainBuilds ==
  /\ MainRuns
  /\ ~call_args.refine
  /\ StartBuild
  /\ detailed_flag' = call_args.detailed_features
  /\ build_context' = IF call_args.context
                        THEN [business_needs |-> txt_business_needs,
                              market_context |-> txt_market_context]
                        ELSE EmptyDict

\* orchestrator.refine_with_feedback(feedback, args.refine)
MainRefines ==
  /\ MainRuns
  /\ call_args.refine
  /\ pc = "idle"
  /\ RefineWithFeedback

\* main.py 150-155: for feature, detail in detailed_features.items():
\* detail.get('file_path', ''), which raises for the string under "error"
SummaryRaises(result, args) ==
  /\ args.detailed_features
  /\ HasKey(result.states, "features")
  /\ LET detailed_features ==
           Get(StateOf(result, "features"), "detailed_features", <<>>)
     IN  \E i \in 1..Len(detailed_features) :
           "error_text" \in DOMAIN detailed_features[i][2]

\* a main that also takes a failed stage of the returned build for a failure
ReachedMainExcept_on_failed_stage ==
  \/ pc = "raised"
  \/ pc = "done" /\ SummaryRaises(build_result, call_args)
  \/ pc = "done" /\ \E i \in 1..Len(build_result.states) :
                      build_result.states[i][2].status = "failed"

\* the exception reached "except Exception" of main
ReachedMainExcept ==
  \/ pc = "raised"
  \/ pc = "done" /\ SummaryRaises(build_result, call_args)

\* the rest of main: the summary is printed and main returns, or the
\* exception of the build or of the printing reaches "except Exception" and
\* main calls sys.exit(1)
MainExits ==
  /\ MainRuns
  /\ pc \in {"done", "raised"} \/ refinement /= PyNone
  /\ call_returned' = [exit_code |-> IF ReachedMainExcept THEN 1 ELSE 0]
  /\ UNCHANGED <<callee, call_args, call_earlier>>
  /\ UNCHANGED <<config_version, feedback_vars, refine_vars, orchestrator_vars,
                 world_vars, build_vars, detail_vars, artifact_vars>>

InitMain == InitBuild

NextMain ==
  \/ ConstructionRaises
  \/ MainSetup
  \/ MainBuilds
  \/ MainRefines
  \/ RunAnalysis
  \/ RunArchitecture
  \/ RunFeaturePlanning
  \/ RunDocumentGeneration
  \/ RunValidation
  \/ RunFinalReport
  \/ FinishBuild
  \/ MainExits

SpecMain == InitMain /\ [][NextMain]_vars

\* ------------------------------------------------------------------------

\* Claims about build_project (specification Spec)
\* ------------------------------------------------------------------------

Recorded(name) == pc /= "idle" /\ HasKey(build_result.states, name)

Status(name) == StateOf(build_result, name).status

FailedCall(name) ==
  \E i \in 1..Len(llm_calls) :
    llm_calls[i].prompt.name = name /\ ~llm_calls[i].ok

NoFaultIn(stage) == \A i \in 1..Len(faults) : faults[i].stage /= stage

\* C1: in every build whose stage operations fail only by raising, the
\* states recorded so far are the first stage names in pipeline order, each
\* completed or failed; every stage recorded has run exactly once and no
\* other has run; the build stands at the next stage until all six are
\* recorded, so it never aborts early and returns six states.
C1_SixStagesInOrder ==
  pc /= "idle" =>
    LET states == build_result.states
        k      == Len(states)
    IN  /\ k <= Len(StageNames)
        /\ \A i \in 1..k :
             /\ states[i][1] = StageNames[i]
             /\ states[i][2].status \in {"completed", "failed"}
        /\ \A i \in 1..Len(StageNames) :
             stage_runs[StageNames[i]] = IF i <= k THEN 1 ELSE 0
        /\ IF k < Len(StageNames)
             THEN pc = StageNames[k + 1]
             ELSE pc \in {"complete", "done", "raised"}

\* a returned build in which the first three stages failed and the final
\* stage still completed
C1_Witness ==
  /\ pc = "done"
  /\ Len(build_result.states) = 6
  /\ Status("analysis") = "failed"
  /\ Status("architecture") = "failed"
  /\ Status("features") = "failed"
  /\ Status("final") = "completed"

ProviderRaisedOnArchitectureOnly ==
  /\ FailedCall("architecture")
  /\ \A i \in 1..Len(llm_calls) :
       llm_calls[i].ok <=> llm_calls[i].prompt.name /= "architecture"

\* C2: if the provider raises on the architecture stage's completion call
\* and on no other call, the returned build has architecture status failed.
C2_ArchitectureFailedWhenProviderRaises ==
  (pc = "done" /\ ProviderRaisedOnArchitectureOnly) =>
    Status("architecture") = "failed"

\* the architecture stage left no usable artifact: it is recorded as failed
\* (no result), or its result is the degraded artifact of a raised call
ArchitectureUnusable ==
  /\ Recorded("architecture")
  /\ \/ Status("architecture") = "failed"
     \/ "error" \in DOMAIN StateOf(build_result, "architecture").result

FeaturesReceivedEmptyArchitecture ==
  /\ \E i \in 1..Len(llm_calls) : llm_calls[i].prompt.name = "features"
  /\ \A i \in 1..Len(llm_calls) :
       llm_calls[i].prompt.name = "features" =>
         llm_calls[i].prompt.architecture = <<>>

\* C3: when the architecture stage yields no usable artifact, the features
\* stage still runs and receives the empty string as architecture text, and
\* it completes when nothing fails in the features stage itself; the
\* documents and final stages run too, and the final stage completes when
\* nothing fails in the final stage itself.
C3_FeaturesRunOnEmptyArchitecture ==
  /\ (Recorded("features") /\ ArchitectureUnusable) =>
       /\ stage_runs["features"] = 1
       /\ FeaturesReceivedEmptyArchitecture
       /\ NoFaultIn("features") => Status("features") = "completed"
  /\ (pc \in {"complete", "done"} /\ ArchitectureUnusable) =>
       /\ stage_runs["documents"] = 1
       /\ stage_runs["final"] = 1
       /\ NoFaultIn("final") => Status("final") = "completed"

\* the architecture stage failed and carries no result; features and final
\* completed
C3_Witness ==
  /\ pc = "done"
  /\ Status("architecture") = "failed"
  /\ FeaturesReceivedEmptyArchitecture
  /\ Status("features") = "completed"
  /\ Status("final") = "completed"

\* C4: when every completion call returns text and persistence and indexing
\* succeed, the returned build has six completed stages, for every context
\* argument including the default None.
C4_AllCompletedWhenNothingFails ==
  (pc = "done" /\ faults = <<>>) =>
    \A i \in 1..Len(build_result.states) :
      build_result.states[i][2].status = "completed"

\* the generation operations: the prompt of the completion call, the stage
\* that makes it, the file the stage saves the artifact to, and the
\* artifact's primary text
GenerationOperations ==
  { [prompt |-> "analysis", stage |-> "analysis", text |-> "analysis_content",
     file |-> FilePath(OutputDir(output_base, 1), name_analysis_overview)],
    [prompt |-> "architecture", stage |-> "architecture",
     text |-> "architecture_content",
     file |-> FilePath(OutputDir(output_base, 2), name_system_architecture)],
    [prompt |-> "features", stage |-> "features", text |-> "features_content",
     file |-> FilePath(OutputDir(output_base, 3), name_feature_list)],
    [prompt |-> "brd", stage |-> "documents", text |-> "content",
     file |-> FilePath(OutputDir(output_base, 4), chars_brd \o ext_md)],
    [prompt |-> "srs", stage |-> "documents", text |-> "content",
     file |-> FilePath(OutputDir(output_base, 4), chars_srs \o ext_md)] }

\* the artifact the operation returned, as the completed stage records it
ReturnedArtifact(op) ==
  LET result == StateOf(build_result, op.stage).result IN
  IF op.stage = "documents" THEN result[op.prompt] ELSE result

Degraded(artifact, text) ==
  /\ "error" \in DOMAIN artifact
  /\ artifact.error = Raised.error
  /\ text \in DOMAIN artifact
  /\ artifact[text] = <<>>

\* C5: a generation operation whose completion call raises returns a
\* degraded artifact (error set to the failure description, primary text
\* empty): that is the artifact the stage saves and records, and no stage
\* is failed by the provider's exception.
C5_GenerationIsFailureBoundary ==
  /\ \A op \in GenerationOperations :
       /\ (FailedCall(op.prompt) /\ op.file \in DOMAIN disk) =>
            Degraded(disk[op.file].document, op.text)
       /\ (/\ FailedCall(op.prompt)
           /\ Recorded(op.stage)
           /\ Status(op.stage) = "completed") =>
            Degraded(ReturnedArtifact(op), op.text)
  /\ pc /= "idle" =>
       \A i \in 1..Len(build_result.states) :
         build_result.states[i][2].status = "failed" =>
           build_result.states[i][2].error /= Raised.error

\* the BRD call raised, the degraded BRD was saved and the stage completed
C5_Witness ==
  /\ pc = "done"
  /\ FailedCall("brd")
  /\ FilePath(OutputDir(output_base, 4), chars_brd \o ext_md) \in DOMAIN disk
  /\ Status("documents") = "completed"
  /\ Degraded(StateOf(build_result, "documents").result.brd, "content")

RefinedFiles == {path \in DOMAIN disk : \E i \in 1..Len(path.dir) : path.dir[i] = "refined"}

\* C7: refine_with_feedback after a completed build refines the artifacts
\* the build recorded for the target stage: one Refiner call and one file
\* under refined/ per sub-artifact (two for documents, one otherwise).
C7_RefinesRecordedArtifacts ==
  (/\ ~IsNone(refinement)
   /\ refinement.after_build
   /\ Status(refinement.target_state) = "completed"
   /\ faults = <<>>) =>
    LET n == IF refinement.target_state = "documents" THEN 2 ELSE 1 IN
    /\ refiner_calls = n
    /\ Cardinality(RefinedFiles) = n

ItemOf(pairs, k) ==
  (CHOOSE item \in {pairs[i] : i \in 1..Len(pairs)} : item[1] = k)[2]

Distinct(seq) == \A i, j \in 1..Len(seq) : seq[i] = seq[j] => i = j

\* C6: when only completion calls raise, generate_detailed_features returns
\* one entry per feature: a feature whose call succeeded keeps its content
\* and file path, and a feature whose call raised shows as an error marker.
C6_OneEntryPerFeature ==
  (/\ detail_pc = "returned"
   /\ Distinct(AllFeatures(detail_features))
   /\ \A i \in 1..Len(detail_outcomes) : detail_outcomes[i].write_ok) =>
    LET all_features == AllFeatures(detail_features) IN
    /\ Len(detail_returned) = Len(all_features)
    /\ \A i \in 1..Len(all_features) :
         IF detail_outcomes[i].llm.ok
           THEN /\ HasKey(detail_returned, all_features[i])
                /\ ItemOf(detail_returned, all_features[i]).content
                     = detail_outcomes[i].llm.text
           ELSE \/ HasKey(detail_returned, key_error)
                \/ /\ HasKey(detail_returned, all_features[i])
                   /\ "error" \in DOMAIN ItemOf(detail_returned, all_features[i])

\* C8: after refine_analysis, refine_architecture, refine_features or
\* refine_document returns, every field of the artifact that was passed in,
\* the contents of its metadata included, equals its value before the call.
C8_InputArtifactUnchanged ==
  artifact_pc /= "idle" => ValueAt(heap, artifact_arg) = artifact_before

\* every failure of the environment in the stage is a raising completion call
OnlyProviderFaultsIn(stage) ==
  \A i \in 1..Len(faults) :
    faults[i].stage = stage => faults[i].kind = "provider"

\* the stage has saved its artifacts, which it does before it adds their
\* texts to the index
ArtifactsSaved(stage) ==
  \A op \in GenerationOperations : op.stage = stage => op.file \in DOMAIN disk

\* the ids of the index entries that hold the text
EntriesOf(text) == {id \in DOMAIN index : index[id].document = text}

\* the primary text of the artifact the operation returned
PrimaryText(op) == ReturnedArtifact(op)[op.text]

StageTypes ==
  {"analysis", "architecture", "features", "feature_detail", "brd", "srs"}

\* C19: every index entry carries the type its stage supplied (analysis,
\* architecture, features, feature_detail, brd or srs) and the version of
\* the build.
C19_EntriesCarryStageAndVersion ==
  \A id \in DOMAIN index :
    /\ index[id].metadata.type \in StageTypes
    /\ index[id].metadata.version = version

\* the part of C19 that speaks of the version and the producing agent
C19_EntriesCarryVersion ==
  \A id \in DOMAIN index :
    /\ index[id].metadata.version = version
    /\ index[id].metadata.agent
         \in {"analyzer", "architect", "feature_planner", "document_writer"}

\* the records of the history log, in file order
HistoryRecords == HistoryLines(disk, HistoryPath)

\* the record a stage appends
StageRecords ==
  [analysis |-> "analysis_complete", architecture |-> "architecture_complete",
   features |-> "features_complete", documents |-> "documents_complete",
   validation |-> "validation_complete", final |-> "final_report_complete"]

\* the records in the order the claim gives them
RecordOrder ==
  <<"analysis_complete", "architecture_complete", "features_complete",
    "documents_complete", "validation_complete", "final_report_complete",
    "build_complete">>

RankOf(state) == CHOOSE k \in 1..Len(RecordOrder) : RecordOrder[k] = state

RecordsOf(state) ==
  {i \in 1..Len(HistoryRecords) : HistoryRecords[i].state = state}

\* the records are some of the seven, each at most once, in the given order
RecordsInOrder ==
  /\ \A i \in 1..Len(HistoryRecords) :
       \E k \in 1..Len(RecordOrder) : RecordOrder[k] = HistoryRecords[i].state
  /\ \A i, j \in 1..Len(HistoryRecords) :
       i < j => RankOf(HistoryRecords[i].state) < RankOf(HistoryRecords[j].state)

\* a stage has appended its record if and only if its status is completed
RecordIffCompleted ==
  \A i \in 1..Len(StageNames) :
    Recorded(StageNames[i]) =>
      (RecordsOf(StageRecords[StageNames[i]]) /= {}
         <=> Status(StageNames[i]) = "completed")

\* a returned build has appended exactly one build_complete record
OneBuildComplete ==
  pc = "done" => Cardinality(RecordsOf("build_complete")) = 1

\* a step keeps the records the log holds and may add records behind them
AppendOnly ==
  /\ Len(HistoryRecords) <= Len(HistoryRecords')
  /\ SubSeq(HistoryRecords', 1, Len(HistoryRecords)) = HistoryRecords

\* C20: during a build the history log grows only by appending; it holds at
\* most one record per stage, in stage order, followed in a returned build
\* by exactly one build_complete record; a stage has appended its record if
\* and only if its status is completed, and the features stage appends a
\* single record however many per-feature completion calls it made.
C20_HistoryRecords ==
  /\ [](RecordsInOrder /\ RecordIffCompleted /\ OneBuildComplete)
  /\ [][AppendOnly]_vars

\* no append to the history log has failed
NoHistoryFault ==
  \A i \in 1..Len(faults) :
    faults[i].kind \notin {"history_write", "history_dir"}

\* C20 for the builds in which every append to the history log succeeds
C20_HistoryRecordsWhenLogWritable ==
  /\ [](NoHistoryFault => (RecordsInOrder /\ RecordIffCompleted /\ OneBuildComplete))
  /\ [][AppendOnly]_vars

\* the final report, once it is written
ReportFile == FilePath(OutputDir(output_base, 6), name_final_report)

ReportWritten == pc /= "idle" /\ ReportFile \in DOMAIN disk

Report == disk[ReportFile].document

\* the status the report shows for one of the five earlier stages
ReportedStatus(name) ==
  IF name = "validation" THEN Report.validation.status
  ELSE (CHOOSE phase \in {Report.phases[i] : i \in 1..Len(Report.phases)} :
          phase.name = name).status

EarlierStages == {"analysis", "architecture", "features", "documents", "validation"}

\* C21: the report the final stage writes holds the project name, the
\* version of the build and, for each of the five earlier stages, the status
\* recorded for it, so that a failed stage is shown as failed; and the final
\* stage completes when nothing fails in the final stage itself.
C21_ReportShowsRecordedStatuses ==
  /\ ReportWritten =>
       /\ Report.project_name = project_name
       /\ Report.version = build_result.version
       /\ \A name \in EarlierStages : ReportedStatus(name) = Status(name)
  /\ (Recorded("final") /\ NoFaultIn("final")) =>
       (Status("final") = "completed" /\ ReportWritten)

\* a returned build whose report shows a failed and a completed stage
C21_Witness ==
  /\ pc = "done"
  /\ ReportWritten
  /\ Status("final") = "completed"
  /\ Status("architecture") = "failed"
  /\ ReportedStatus("architecture") = "failed"
  /\ Status("documents") = "failed"
  /\ ReportedStatus("documents") = "failed"
  /\ ReportedStatus("features") = "completed"

\* the completion calls of the features stage: the feature plan and the
\* per-feature details
FeatureStageCalls ==
  {i \in 1..Len(llm_calls) :
     llm_calls[i].prompt.name \in {"features", "feature_detail"}}

DetailCalls ==
  {i \in 1..Len(llm_calls) : llm_calls[i].prompt.name = "feature_detail"}

DetailFiles ==
  {path \in DOMAIN disk : disk[path].writer = "generate_detailed_features"}

\* C24: per-feature detail generation is opt-in: a features stage run with
\* generate_detailed_features False issues exactly one completion call and
\* writes no per-feature detail file; per-feature calls are made only when
\* the flag is True.
C24_DetailIsOptIn ==
  /\ (Recorded("features") /\ ~detailed_flag) =>
       (Cardinality(FeatureStageCalls) = 1 /\ DetailFiles = {})
  /\ (pc /= "idle" /\ DetailCalls /= {}) => detailed_flag

\* ------------------------------------------------------------------------
\* Claims about the command line (specification SpecMain)
\* ------------------------------------------------------------------------

\* creating or validating the output directory structure failed
SetupFailed ==
  \E i \in 1..Len(faults) : faults[i].kind \in {"directory", "output_directory"}

Exited == callee /= None /\ call_returned /= PyNone

NoStageRan ==
  /\ pc = "idle"
  /\ \A name \in DOMAIN stage_runs : stage_runs[name] = 0
  /\ refinement = PyNone
  /\ refiner_calls = 0

\* C22: when creating the output directory structure fails (in the
\* construction of the orchestrator, in refresh_output_paths or in the
\* validation of the output directory), no stage runs: no completion call
\* is made, no file is written, no history record is appended, and the
\* process exits with 1.
C22_SetupFailureIsFatal ==
  SetupFailed =>
    /\ NoStageRan
    /\ llm_calls = <<>>
    /\ disk = <<>>
    /\ index = <<>>
    /\ history_file = PyNone
    /\ call_returned = [exit_code |-> 1]

\* refresh_output_paths raised for a custom output directory that had
\* passed its validation
C22_Witness ==
  /\ callee = "main"
  /\ call_args.output_dir /= None
  /\ \E i \in 1..Len(faults) : faults[i].kind = "directory"
  /\ output_base = get_output_path(Resolve(dir_out), call_args.version)
  /\ call_returned = [exit_code |-> 1]

\* the faults a stage or a refinement turns into a result
StageFaultKinds == {"provider", "persistence", "index", "history_write"}

OnlyStageFaults ==
  \A i \in 1..Len(faults) :
    faults[i].kind \in StageFaultKinds /\ faults[i].stage /= "complete"

C23_WitnessRefinement ==
  /\ Exited
  /\ refinement /= PyNone
  /\ call_returned.exit_code = 0

\* the files the stages wrote
StageFiles == {path \in DOMAIN disk : path.dir /= <<"logs">>}

BuildStarted == callee = "main" /\ pc /= "idle"

\* C25: in a run with --version V, with or without --output-dir, the build
\* writes every stage file below the output directory of version V, the
\* build result carries version V, and V is the version the agents and the
\* orchestrator stamp into the metadata of the artifacts.
C25_BuildUsesGivenVersion ==
  BuildStarted =>
    /\ \A path \in StageFiles :
         path.base = get_output_path(config_base_path, call_args.version)
    /\ build_result.version = call_args.version
    /\ config_version = call_args.version
    /\ \A id \in DOMAIN index :
         index[id].metadata.version = call_args.version

\* C26: every history record is appended to logs/history.jsonl below the
\* output base the build writes its stage files to.
C26_HistoryBelowOutputBase ==
  (callee = "main" /\ history_file /= PyNone) =>
    /\ history_file.base = output_base
    /\ history_file.dir = <<"logs">>
    /\ \A path \in StageFiles : path.base = history_file.base

\* ------------------------------------------------------------------------
\* Claims about the validator (specifications SpecValidate, SpecValidateOutput)
\* ------------------------------------------------------------------------

Validated == callee = "validate_document"

\* C11: whatever the document text and kind, the score validate_document
\* returns is max(0, 100 - 20 * errors - 5 * warnings) over the errors and
\* warnings it reports, and valid is exactly score >= 70.
C11_ScoreFromFindings ==
  Validated =>
    LET penalised == 100 - 20 * Len(call_returned.errors)
                         - 5 * Len(call_returned.warnings)
    IN  /\ call_returned.score = (IF penalised < 0 THEN 0 ELSE penalised)
        /\ call_returned.valid = (call_returned.score >= 70)

\* a validation with so many findings that the score is cut off at 0, and
\* an earlier one of a valid document with findings
C11_Witness ==
  /\ Validated
  /\ 20 * Len(call_returned.errors) + 5 * Len(call_returned.warnings) > 100
  /\ call_returned.score = 0
  /\ ~call_returned.valid
  /\ call_earlier /= PyNone
  /\ call_earlier.returned.valid
  /\ call_earlier.returned.errors /= <<>>
  /\ call_earlier.returned.warnings /= <<>>

Findings(result) == [errors |-> Len(result.errors), warnings |-> Len(result.warnings)]

\* result a reports at least as many errors and as many warnings as result b
AtLeastAsManyFindings(a, b) ==
  Findings(a).errors >= Findings(b).errors
    /\ Findings(a).warnings >= Findings(b).warnings

\* C12: the score of validate_document always lies in 0..100, and of two
\* results the one that reports at least as many errors and at least as
\* many warnings never has the higher score.
C12_ScoreBoundedAndMonotone ==
  Validated =>
    /\ call_returned.score \in 0..100
    /\ call_earlier /= PyNone =>
         /\ AtLeastAsManyFindings(call_returned, call_earlier.returned)
              => call_returned.score <= call_earlier.returned.score
         /\ AtLeastAsManyFindings(call_earlier.returned, call_returned)
              => call_earlier.returned.score <= call_returned.score

\* two validations, the later with more errors and more warnings and a
\* lower score that is still above 0
C12_Witness ==
  /\ Validated
  /\ call_earlier /= PyNone
  /\ Findings(call_returned).errors > Findings(call_earlier.returned).errors
  /\ Findings(call_returned).warnings > Findings(call_earlier.returned).warnings
  /\ call_returned.score < call_earlier.returned.score
  /\ call_returned.score > 0

\* the BRD document lacks one of the mandatory section titles
LacksBrdSection(content) ==
  \E i \in 1..Len(required_sections("brd")) :
    ~Contains(Lower(content), Lower(required_sections("brd")[i]))

\* C13: validating as kind 'brd' a document that lacks any of the four
\* mandatory section titles yields at least one error and valid = False.
C13_MissingBrdSectionInvalid ==
  (Validated /\ call_args.doc_type = "brd" /\ LacksBrdSection(call_args.content))
    => (call_returned.errors /= <<>> /\ ~call_returned.valid)

OutputValidated == callee = "validate_project_output"

\* the markdown files below the validated directory
MarkdownFilesFound ==
  {path \in DOMAIN disk :
     /\ path.base = call_args.output_dir
     /\ path.name \in {name_BRD_md, name_srs_v2_md, name_notes_md, name_brd_srs_md}}

\* the kind the file name stands for: 'brd' if its lower-cased name contains
\* 'brd', otherwise 'srs' if it contains 'srs', otherwise 'markdown'
KindOfName(name) ==
  CASE name = name_BRD_md -> "brd"
    [] name = name_brd_srs_md -> "brd"
    [] name = name_srs_v2_md -> "srs"
    [] name = name_notes_md -> "markdown"

C14_WitnessNoFile ==
  /\ OutputValidated
  /\ disk /= <<>>
  /\ MarkdownFilesFound = {}
  /\ call_returned.overall_valid

\* ------------------------------------------------------------------------
\* Claims about the section extractors (specification SpecExtract)
\* ------------------------------------------------------------------------

Extracted == callee \in {"_extract_sections", "_extract_document_sections"}

\* the call was given the text of a mapping
OfMapping == call_args.of_mapping

\* no line of the text has '#' as its first character that is not white
NoHeadingLine(content) ==
  \A line \in {SplitLines(content)[i] : i \in 1..Len(SplitLines(content))} :
    Strip(line) = <<>> \/ Head(Strip(line)) /= "#"

\* C15 as stated: for every ordered mapping of title to body, extracting
\* the sections of its text returns the same mapping.
C15_EveryMappingRoundTrips ==
  (Extracted /\ OfMapping) => call_returned = call_args.mapping

\* titles are not empty and bodies have no heading line, and neither has
\* white space around it: the form of the mappings the extractors return
Trimmed(pairs) ==
  \A i \in 1..Len(pairs) :
    /\ pairs[i][1] /= <<>>
    /\ Strip(pairs[i][1]) = pairs[i][1]
    /\ Strip(pairs[i][2]) = pairs[i][2]
    /\ NoHeadingLine(pairs[i][2])

\* C15 (amended): every mapping the extractors return is trimmed, and for
\* every trimmed ordered mapping, extracting the sections of its text
\* returns the same mapping: same keys, same order, same bodies.
C15_TrimmedMappingRoundTrips ==
  Extracted =>
    /\ Trimmed(call_returned)
    /\ (OfMapping /\ Trimmed(call_args.mapping))
         => call_returned = call_args.mapping

\* a mapping of two sections, one of a title that starts with '#' and one
\* of a body of several lines, returned as it was given
C15_Witness ==
  /\ Extracted
  /\ OfMapping
  /\ call_earlier = PyNone
  /\ Trimmed(call_args.mapping)
  /\ Len(call_args.mapping) = 2
  /\ \E i \in 1..2 : Head(call_args.mapping[i][1]) = "#"
  /\ \E i \in 1..2 : Len(SplitLines(call_args.mapping[i][2])) > 2
  /\ call_returned = call_args.mapping

\* C16: for every text without a heading line the extractors return the
\* empty mapping.
C16_NoHeadingNoSections ==
  (Extracted /\ NoHeadingLine(call_args.content)) => call_returned = <<>>

\* a text of several lines with a '#' inside a line and none at the start
C16_Witness ==
  /\ Extracted
  /\ NoHeadingLine(call_args.content)
  /\ Contains(call_args.content, <<"#">>)
  /\ Len(SplitLines(call_args.content)) = MaxTextLines
  /\ call_returned = <<>>

\* the numbers of the heading lines, in order
HeadingNumbers(lines) ==
  SelectSeq([i \in 1..Len(lines) |-> i], LAMBDA i : IsHeadingLine(lines[i]))

\* the number of the first heading line after line i, or of the line after
\* the last one
SectionEnd(lines, i) ==
  IF \E j \in (i + 1)..Len(lines) : IsHeadingLine(lines[j])
    THEN CHOOSE j \in (i + 1)..Len(lines) :
           /\ IsHeadingLine(lines[j])
           /\ \A k \in (i + 1)..(j - 1) : ~IsHeadingLine(lines[k])
    ELSE Len(lines) + 1

\* per heading line its title and the trimmed join of the lines up to the
\* next heading line
SectionsByHeading(content) ==
  LET lines    == SplitLines(content)
      headings == HeadingNumbers(lines)
  IN  [k \in 1..Len(headings) |->
         <<HeadingTitle(lines[headings[k]]),
           Strip(JoinLines(SubSeq(lines, headings[k] + 1,
                                  SectionEnd(lines, headings[k]) - 1)))>>]

\* C27: for every text, extract_sections returns one section per heading
\* line, in the order of the heading lines: the key is the title of the
\* line, without marker and surrounding white space, and the value is the
\* trimmed join of the lines between this heading line and the next one or
\* the end of the text; lines before the first heading line are in no body.
C27_OneSectionPerHeadingLine ==
  Extracted => call_returned = SectionsByHeading(call_args.content)

\* ------------------------------------------------------------------------
\* Claims about the feature file names (specification SpecSafeName)
\* ------------------------------------------------------------------------

Derived == callee = "safe_name"

LowercaseAlphanumerics ==
  {"a", "b", "c", "d", "e", "f", "g", "h", "i", "j", "k", "l", "m", "n", "o",
   "p", "q", "r", "s", "t", "u", "v", "w", "x", "y", "z",
   "0", "1", "2", "3", "4", "5", "6", "7", "8", "9"}

\* the stem is made of lowercase alphanumerics and the separator '_', has
\* at most 50 characters and none of '/', '\', '.'
StemIsSafe(stem) ==
  /\ \A i \in 1..Len(stem) : stem[i] \in LowercaseAlphanumerics \cup {"_"}
  /\ Len(stem) <= 50
  /\ \A i \in 1..Len(stem) : stem[i] \notin {"/", "\\", "."}

\* no two separators side by side
RunsAreSingleSeparators(stem) == ~Contains(stem, <<"_", "_">>)

\* the part of C17 that does not speak of runs
C17_StemIsSafe == Derived => StemIsSafe(call_returned)

\* C17: for every feature string the file name stem consists of lowercase
\* alphanumerics and one separator character only, every run of
\* non-alphanumeric characters is replaced by a single separator, the stem
\* has at most 50 characters and none of '/', '\', '.'.
C17_StemSanitised ==
  Derived => (StemIsSafe(call_returned) /\ RunsAreSingleSeparators(call_returned))

\* ------------------------------------------------------------------------
\* Claims about the list extractors (specification SpecLists)
\* ------------------------------------------------------------------------

\* the lines of the text as the loops see them: stripped
StrippedLines(content) ==
  LET lines == SplitLines(content) IN
  AsTuple([i \in 1..Len(lines) |-> Strip(lines[i])])

\* the texts of the lines chosen by captured, in the order of the lines
TextsOfLines(lines, captured(_)) ==
  LET chosen == SelectSeq([i \in 1..Len(lines) |-> i], captured) IN
  AsTuple([k \in 1..Len(chosen) |-> ListItemText(lines[chosen[k]])])

KeywordsOf(a_callee) ==
  IF a_callee = "_extract_requirements" THEN RequirementKeywords
  ELSE TechnicalKeywords

RequirementsExtracted ==
  callee \in {"_extract_requirements", "_extract_technical_requirements"}

\* line i is a keyword line
KeywordLine(lines, i, keywords) == AnyKeywordIn(keywords, Lower(lines[i]))

\* the section is open when the loop comes to line i: a keyword line before
\* it, and no line starting with '#' since that is not a keyword line
SectionOpenAt(lines, i, keywords) ==
  \E j \in 1..(i - 1) :
    /\ KeywordLine(lines, j, keywords)
    /\ \A k \in (j + 1)..(i - 1) :
         StartsWith(lines[k], <<"#">>) => KeywordLine(lines, k, keywords)

\* line i is a candidate: a list line the loop comes to with the section open
Candidate(lines, i, keywords) ==
  /\ ~KeywordLine(lines, i, keywords)
  /\ SectionOpenAt(lines, i, keywords)
  /\ IsListLine(lines[i])

\* C28: both requirement extractors drop a candidate exactly when its text,
\* after the bullet and number prefixes are stripped, is shorter than 10
\* characters: texts of 10 or more characters are kept, of 9 or fewer dropped.
C28_ShortCandidatesDropped ==
  RequirementsExtracted =>
    LET lines == StrippedLines(call_args.content)
        Kept(i) == /\ Candidate(lines, i, KeywordsOf(callee))
                   /\ Len(ListItemText(lines[i])) >= RequirementMinLen
    IN  call_returned = TextsOfLines(lines, Kept)

\* the last heading line before line i has a title with a keyword
UnderMatchingHeading(lines, i, keywords) ==
  \E j \in 1..(i - 1) :
    /\ StartsWith(lines[j], <<"#">>)
    /\ AnyKeywordIn(keywords, Lower(HeadingTitle(lines[j])))
    /\ \A k \in (j + 1)..(i - 1) : ~StartsWith(lines[k], <<"#">>)

\* C29: _extract_requirements captures a list line, whose text passes the
\* length filter, if and only if the line lies in a section whose heading
\* has a requirement keyword in its title: only such a heading opens the
\* section, every later heading closes it, and keywords in body lines do
\* not open it.
C29_CapturedIffUnderMatchingHeading ==
  callee = "_extract_requirements" =>
    LET lines == StrippedLines(call_args.content)
        Captured(i) == /\ UnderMatchingHeading(lines, i, RequirementKeywords)
                       /\ IsListLine(lines[i])
                       /\ Len(ListItemText(lines[i])) > RequirementMinLen
    IN  call_returned = TextsOfLines(lines, Captured)

\* the bucket a line names: core before enhanced before optional
BucketOfLine(line) ==
  IF AnyKeywordIn(CoreKeywords, Lower(line)) THEN "core"
  ELSE IF AnyKeywordIn(EnhancedKeywords, Lower(line)) THEN "enhanced"
  ELSE IF AnyKeywordIn(OptionalKeywords, Lower(line)) THEN "optional"
  ELSE None

\* the bucket of the last keyword line at or before line i, None without one
BucketAt(lines, i) ==
  IF \E j \in 1..i : BucketOfLine(lines[j]) /= None
    THEN BucketOfLine(lines[CHOOSE j \in 1..i :
                              /\ BucketOfLine(lines[j]) /= None
                              /\ \A k \in (j + 1)..i :
                                   BucketOfLine(lines[k]) = None])
    ELSE None

\* line i is a list line with a feature text of 1 to 99 characters
FeatureLine(lines, i) ==
  /\ IsListLine(lines[i])
  /\ ListItemText(lines[i]) /= <<>>
  /\ Len(ListItemText(lines[i])) < FeatureMaxLen

FeaturesExtracted == callee = "_extract_feature_categories"

\* C30: every list line whose feature text is not empty and shorter than
\* 100 characters is appended to exactly one bucket, the one of the last
\* keyword line at or before it (core before enhanced before optional), and
\* to none while no keyword line was seen; texts of 100 characters or more
\* are not captured; the buckets hold nothing else.
C30_FeaturesInBucketOfLastKeywordLine ==
  FeaturesExtracted =>
    LET lines == StrippedLines(call_args.content) IN
    /\ DOMAIN call_returned = {"core", "enhanced", "optional"}
    /\ \A bucket \in DOMAIN call_returned :
         LET InBucket(i) == FeatureLine(lines, i) /\ BucketAt(lines, i) = bucket
         IN  call_returned[bucket] = TextsOfLines(lines, InBucket)

\* a line naming two buckets went to core, a later list line after an
\* optional keyword line to optional, and a text of 100 characters nowhere
C30_Witness ==
  /\ FeaturesExtracted
  /\ call_args.content =
       JoinLines(<<<<"M","u","s","t","-","h","a","v","e",","," ","o","p","t","i","o","n","a","l">>, bullet \o Filler(FeatureMaxLen - 1),
                   bullet \o Filler(FeatureMaxLen)>>)
  /\ call_returned.core = <<Filler(FeatureMaxLen - 1)>>
  /\ call_returned.optional = <<>>

\* ------------------------------------------------------------------------
\* Claims about the strategy selection (specification SpecFeedback)
\* ------------------------------------------------------------------------

Strategies ==
  {"structure_improvement", "clarity_optimization", "completeness_check",
   "content_enhancement"}

\* the lower-cased feedback contains a keyword of the bucket
FeedbackNames(keywords) ==
  \E k \in keywords :
    \E i \in 1..Len(feedback) :
      /\ i + Len(k) - 1 <= Len(feedback)
      /\ \A j \in 1..Len(k) : LowerChar(feedback[i + j - 1]) = k[j]

\* C31: the strategy is chosen for every feedback text, by the first bucket
\* in the order structural, clarity, completeness that has a keyword in the
\* lower-cased text, and is content_enhancement when none has; it depends
\* on the text alone.
C31_FirstMatchingBucket ==
  strategy /= None =>
    /\ strategy \in Strategies
    /\ strategy = "structure_improvement" <=> FeedbackNames(StructuralKeywords)
    /\ strategy = "clarity_optimization" <=>
         (~FeedbackNames(StructuralKeywords) /\ FeedbackNames(ClarityKeywords))
    /\ strategy = "completeness_check" <=>
         (/\ ~FeedbackNames(StructuralKeywords)
          /\ ~FeedbackNames(ClarityKeywords)
          /\ FeedbackNames(CompletenessKeywords))
    /\ strategy = "content_enhancement" <=>
         (/\ ~FeedbackNames(StructuralKeywords)
          /\ ~FeedbackNames(ClarityKeywords)
          /\ ~FeedbackNames(CompletenessKeywords))

\* an upper-case clarity keyword before a completeness keyword
C31_Witness ==
  /\ strategy = "clarity_optimization"
  /\ feedback = <<"U","N","C","L","E","A","R">> \o kw_add

\* ------------------------------------------------------------------------
\* Claims about the refine operations (specification SpecArtifactRefine)
\* ------------------------------------------------------------------------

\* the operation returned a new artifact, not its argument
RefineSucceeded == artifact_pc /= "idle" /\ artifact_returned /= artifact_arg

RefinedArtifact == heap[artifact_returned]

\* the field is absent or holds the value
FieldIs(artifact, field, value) ==
  field \in DOMAIN artifact => artifact[field] = value

\* C32: after a successful refine_analysis, refine_architecture,
\* refine_features or refine_document every structured field of the returned
\* artifact (sections; components and technology stack; feature categories
\* and timeline; requirements or technical requirements) is what its
\* extractor returns for the new primary text of the returned artifact.
C32_StructuredFieldsReextracted ==
  RefineSucceeded =>
    /\ artifact_pc = "refine_analysis" =>
         RefinedArtifact.sections =
           _extract_sections(RefinedArtifact.analysis_content)
    /\ artifact_pc = "refine_architecture" =>
         /\ RefinedArtifact.components =
              _extract_components(RefinedArtifact.architecture_content)
         /\ RefinedArtifact.technology_stack =
              _extract_technology_stack(RefinedArtifact.architecture_content)
    /\ artifact_pc = "refine_features" =>
         /\ RefinedArtifact.feature_categories =
              _extract_feature_categories(RefinedArtifact.features_content)
         /\ RefinedArtifact.timeline =
              _extract_timeline(RefinedArtifact.features_content)
    /\ artifact_pc = "refine_document" =>
         /\ RefinedArtifact.sections =
              _extract_document_sections(RefinedArtifact.content)
         /\ FieldIs(RefinedArtifact, "requirements",
                    _extract_requirements(RefinedArtifact.content))
         /\ FieldIs(RefinedArtifact, "technical_requirements",
                    _extract_technical_requirements(RefinedArtifact.content))

\* a refined BRD whose requirements are new and come from the new text
C32_Witness ==
  /\ RefineSucceeded
  /\ artifact_pc = "refine_document"
  /\ {"document_type", "requirements", "sections"} \subseteq DOMAIN artifact_before
  /\ artifact_before.document_type = "brd"
  /\ RefinedArtifact.content = txt_rich
  /\ RefinedArtifact.requirements /= <<>>
  /\ RefinedArtifact.requirements /= artifact_before.requirements
  /\ RefinedArtifact.sections /= artifact_before.sections

\* ------------------------------------------------------------------------
\* Claims about the detail files (specification SpecDetail)
\* ------------------------------------------------------------------------

\* the entries generate_detailed_features returned for features
DetailEntries ==
  {i \in 1..Len(detail_returned) : "file_path" \in DOMAIN detail_returned[i][2]}

\* C33: two different feature strings of one feature plan are written to
\* two different files, so that after the call the file of every returned
\* entry holds the content of that entry and no detail file was
\* overwritten for another feature.
C33_DetailFilesDistinct ==
  detail_pc = "returned" =>
    /\ \A i, j \in DetailEntries :
         detail_returned[i][1] /= detail_returned[j][1] =>
           detail_returned[i][2].file_path /= detail_returned[j][2].file_path
    /\ \A i \in DetailEntries :
         /\ detail_returned[i][2].file_path \in DOMAIN disk
         /\ disk[detail_returned[i][2].file_path].document =
              detail_returned[i][2].content
    /\ Cardinality({path \in DOMAIN disk :
                      disk[path].writer = "generate_detailed_features"})
         >= Cardinality(DetailEntries)

\* ------------------------------------------------------------------------
\* Claims about termination (specification SpecTermination)
\* ------------------------------------------------------------------------

BuildPromptNames ==
  {"analysis", "bnm_analysis", "architecture", "features", "feature_detail",
   "brd", "srs"}

\* the completion calls build_project has made
BuildCalls ==
  {i \in 1..Len(llm_calls) : llm_calls[i].prompt.name \in BuildPromptNames}

\* the features the feature plan of this build names
ExtractedFeatures ==
  IF \E i \in BuildCalls : llm_calls[i].prompt.name = "features" /\ llm_calls[i].ok
    THEN FeatureCount(Returned(txt_features))
    ELSE 0

\* no completion call is issued twice, and a build makes at most
\* 5 + 1 + (number of extracted features) of them
CallsBounded ==
  /\ \A i, j \in BuildCalls :
       llm_calls[i].prompt = llm_calls[j].prompt => i = j
  /\ Cardinality(BuildCalls) <= 5 + 1 + ExtractedFeatures
  /\ (\E i \in BuildCalls : llm_calls[i].prompt.name = "bnm_analysis") =>
       /\ build_context /= PyNone
       /\ "business_needs" \in DOMAIN build_context

GeneratingStages == {op.stage : op \in GenerationOperations}

\* a completion call of the stage raised, so that its agent returned a
\* degraded artifact
StageDegraded(stage) ==
  \E op \in GenerationOperations : op.stage = stage /\ FailedCall(op.prompt)

\* no write of an artifact, no add_document and no creation of the log
\* directory failed in the stage
PersistedAndIndexed(stage) ==
  /\ ArtifactsSaved(stage)
  /\ \A i \in 1..Len(faults) :
       faults[i].stage = stage => faults[i].kind \in {"provider", "history_write"}

CompletedShape(state) ==
  /\ state.status = "completed"
  /\ {"result", "files"} \subseteq DOMAIN state
  /\ "error" \notin DOMAIN state
  /\ state.files /= <<>>

FailedShape(state) ==
  /\ state.status = "failed"
  /\ "error" \in DOMAIN state
  /\ "result" \notin DOMAIN state
  /\ "files" \notin DOMAIN state

\* C35: every StageResult of a build has one of two shapes: completed with
\* a result and a non-empty files list, or failed with an error message and
\* neither result nor files; a stage whose agent returned a degraded
\* artifact and whose persistence and indexing succeeded has the first.
C35_TwoShapes ==
  pc /= "idle" =>
    /\ \A i \in 1..Len(build_result.states) :
         \/ CompletedShape(build_result.states[i][2])
         \/ FailedShape(build_result.states[i][2])
    /\ \A stage \in GeneratingStages :
         (Recorded(stage) /\ StageDegraded(stage) /\ PersistedAndIndexed(stage)) =>
           /\ CompletedShape(StateOf(build_result, stage))
           /\ \E op \in GenerationOperations :
                /\ op.stage = stage
                /\ "error" \in DOMAIN ReturnedArtifact(op)

\* a returned build with a completed stage whose artifact is degraded and a
\* failed stage
C35_Witness ==
  /\ pc = "done"
  /\ StageDegraded("architecture")
  /\ CompletedShape(StateOf(build_result, "architecture"))
  /\ "error" \in DOMAIN StateOf(build_result, "architecture").result
  /\ FailedShape(StateOf(build_result, "documents"))


\* add_document raised in the stage
IndexFailedIn(stage) ==
  \E i \in 1..Len(faults) : faults[i].stage = stage /\ faults[i].kind = "index"

\* the files lists of the recorded states
ListedFiles ==
  UNION { {build_result.states[i][2].files[k] :
             k \in 1..Len(build_result.states[i][2].files)} :
          i \in {j \in 1..Len(build_result.states) :
                   "files" \in DOMAIN build_result.states[j][2]} }

\* the files the records of the history log name
LoggedFiles ==
  UNION { {HistoryRecords[i].files[k] : k \in 1..Len(HistoryRecords[i].files)} :
          i \in 1..Len(HistoryRecords) }

\* the generated text a later completion call was given for the operation
ReceivedTexts(op) ==
  {llm_calls[i].prompt[op.prompt] :
     i \in {j \in 1..Len(llm_calls) : op.prompt \in DOMAIN llm_calls[j].prompt}}

\* C36: a stage does not roll back: when indexing raises after the stage's
\* file was persisted, the stage is recorded failed, the file stays on disk
\* but is in no StageResult files list and in no history record, the
\* artifact is not in the BuildResult, and every later stage is given the
\* empty string in place of the generated text.
C36_NoRollback ==
  \A op \in GenerationOperations :
    (Recorded(op.stage) /\ IndexFailedIn(op.stage)) =>
      /\ FailedShape(StateOf(build_result, op.stage))
      /\ op.file \in DOMAIN disk
      /\ op.file \notin ListedFiles
      /\ op.file \notin LoggedFiles
      /\ ReceivedTexts(op) \subseteq {<<>>}

\* a returned build whose analysis text was generated and saved, whose
\* analysis stage failed on indexing and whose later stages were given the
\* empty string
C36_Witness ==
  /\ pc = "done"
  /\ IndexFailedIn("analysis")
  /\ \E i \in 1..Len(llm_calls) :
       llm_calls[i].prompt.name = "analysis" /\ llm_calls[i].ok
  /\ \E op \in GenerationOperations :
       /\ op.prompt = "analysis"
       /\ op.file \in DOMAIN disk
       /\ disk[op.file].document.analysis_content = txt_analysis
       /\ ReceivedTexts(op) = {<<>>}
  /\ Cardinality({i \in 1..Len(llm_calls) :
                    "analysis" \in DOMAIN llm_calls[i].prompt}) = 4


\* the build_complete records of the history log
BuildCompleteRecords ==
  {i \in 1..Len(HistoryRecords) : HistoryRecords[i].state = "build_complete"}

\* C37: when build_project returns, the files list of the BuildResult, and
\* with it the files of the build_complete history record, is the
\* concatenation in stage order of the files lists of the StageResults.
C37_FilesAreConcatenation ==
  pc = "done" =>
    /\ build_result.files = GeneratedFiles(build_result.states)
    /\ \A i \in BuildCompleteRecords :
         HistoryRecords[i].files = GeneratedFiles(build_result.states)

\* ------------------------------------------------------------------------
\* Claims about failed refinement rounds (specification SpecRefine)
\* ------------------------------------------------------------------------

\* C38: a failed round of iterative_refinement is isolated: the round after
\* a round whose completion call raised is given the content that round
\* was given, the remaining rounds still run, the history has one record
\* per feedback with the round numbers 1..n, and the returned result has
\* no error field.
C38_FailedRoundIsolated ==
  /\ Len(round_inputs) = RoundsDone
  /\ Len(round_results) = RoundsDone
  /\ \A i \in 1..RoundsDone :
       /\ refinement_history[i].round = i
       /\ refinement_history[i].feedback = feedback_list[i]
       /\ (RoundFailed(i) /\ i < RoundsDone) => round_inputs[i + 1] = round_inputs[i]
  /\ it_pc = "returned" =>
       /\ RoundsDone = Len(feedback_list)
       /\ final_result.refinement_history = refinement_history
       /\ final_result.total_rounds = Len(feedback_list)
       /\ "error" \notin DOMAIN final_result
       /\ (RoundsDone > 0 /\ RoundFailed(RoundsDone)) =>
            final_result.final_refined_content = round_inputs[RoundsDone]

\* a returned refinement of non-empty content whose first round failed and
\* whose second round refined the original content
C38_Witness ==
  /\ it_pc = "returned"
  /\ Len(feedback_list) = 2
  /\ it_content /= <<>>
  /\ RoundFailed(1)
  /\ round_inputs[2] = it_content
  /\ ~RoundFailed(2)
  /\ final_result.final_refined_content /= it_content
  /\ refinement_history[2].round = 2


\* the operations of the documents stage
DocumentOperations == {op \in GenerationOperations : op.stage = "documents"}

\* none of the mandatory sections of the document type is named in the text
LacksMandatorySections(text, doc_type) ==
  \A i \in 1..Len(required_sections(doc_type)) :
    ~Contains(Lower(text), Lower(required_sections(doc_type)[i]))

\* C39: the validation stage judges what is on disk: when the generation
\* of the BRD or SRS degraded to empty content, the documents stage (its
\* persistence and indexing succeeding) is still completed, the saved
\* brd.md or srs.md lacks the mandatory sections, and a completed
\* validation stage reports that file as invalid and overall_valid False.
C39_ValidationJudgesDisk ==
  \A op \in DocumentOperations :
    (Recorded("documents") /\ FailedCall(op.prompt)) =>
      /\ PersistedAndIndexed("documents") =>
           /\ Status("documents") = "completed"
           /\ ReturnedArtifact(op).content = <<>>
      /\ op.file \in DOMAIN disk =>
           LacksMandatorySections(ReadFile(disk[op.file]), op.prompt)
      /\ (/\ op.file \in DOMAIN disk
          /\ Recorded("validation")
          /\ Status("validation") = "completed") =>
           /\ op.file \in DOMAIN StateOf(build_result, "validation").result.files
           /\ ~StateOf(build_result, "validation").result.files[op.file].valid
           /\ ~StateOf(build_result, "validation").result.overall_valid

\* a returned build whose BRD call raised, whose documents and validation
\* stages completed and whose validation reports brd.md invalid
C39_Witness ==
  /\ pc = "done"
  /\ FailedCall("brd")
  /\ ~FailedCall("srs")
  /\ Status("documents") = "completed"
  /\ Status("validation") = "completed"
  /\ \E op \in DocumentOperations :
       /\ op.prompt = "brd"
       /\ ~StateOf(build_result, "validation").result.files[op.file].valid
  /\ ~StateOf(build_result, "validation").result.overall_valid

\* ------------------------------------------------------------------------
\* Claims about the two section extractors (specification SpecExtract)
\* ------------------------------------------------------------------------

\* C40: the two section extractors are the same function: for every text
\* what _extract_sections returned is what _extract_document_sections
\* returns for it, and the other way round, as ordered mappings.
C40_SameFunction ==
  /\ callee = "_extract_sections" =>
       call_returned = _extract_document_sections(call_args.content)
  /\ callee = "_extract_document_sections" =>
       call_returned = _extract_sections(call_args.content)

\* the document extractor has returned two sections, one with a body, for a
\* text with upper-case letters
C40_Witness ==
  /\ callee = "_extract_document_sections"
  /\ call_earlier = PyNone
  /\ Len(call_returned) = 2
  /\ call_returned[1][1] = <<"B", " ", "b">>
  /\ call_returned[1][2] /= <<>>
  /\ call_returned = _extract_sections(call_args.content)

====
